---- MODULE Spec2Model ----
(***************************************************************************)
(* A model of the semadb shard: the points bucket, the per-transaction     *)
(* point cache, the DistSet, greedySearch, robustPrune and the shard's      *)
(* Insert/Update/Delete/Search/Info operations.                             *)
(*                                                                          *)
(* Vectors are integer vectors of length VectorSize; the distance is the    *)
(* squared euclidean distance (eucDist), so every distance is an integer.   *)
(* alpha is the rational Alpha[1]/Alpha[2].                                 *)
(* A write transaction (db.Update) is one atomic step: bbolt admits one     *)
(* writer and commits or rolls back the closure as a whole.                 *)
(* eucDist indexes its second argument by the positions of the first: on a  *)
(* shorter second argument the process panics, the transaction is rolled    *)
(* back and the shard is no longer open (VecSpec).                          *)
(*                                                                          *)
(* MgrSpec is the shard manager of the cluster node: LoadShard, its map of  *)
(* loaded shards, its mutex and the cleanup goroutine of each loaded shard, *)
(* each a process whose steps are the blocking points of the code.          *)
(* PlSpec is KeyPlacement over keys that are sequences of characters.       *)
(* WrSpec and ScSpec are ClusterWrite and ClusterScan, reply by reply.      *)
(* TxSpec is a write and a read transaction on the points bucket, IdcSpec   *)
(* the IdCounter, MgrFairSpec the manager under a fair scheduler, PrSpec    *)
(* robustPrune alone and DsSpec the DistSet alone.  PcSpec is a PointCache  *)
(* whose CachePoints are objects held by pointer, NbSpec the locking of     *)
(* WithPointNeighbours, ClSpec the bucket of the users' collections.        *)
(***************************************************************************)
EXTENDS Integers, Sequences, FiniteSets, TLC

\* ------------------------------------------------------------------ bounds
MaxId == 2
MaxCoord == 1
MaxBatch == 2
MaxK == 2
MaxSearchSize == 2
MaxDegreeBound == 2
MaxDirs == 1
MaxHandles == 2
MaxCallers == 2
MaxParts == 6
MaxServers == 3
MaxNextId == 3
MaxItems == 3
MaxObjects == 2
MaxRoutines == 3

\* --------------------------------------------------------------- constants
VectorSize == 1
StartId == 0
Alpha == <<6, 5>>
GeneralReplication == 2

UserIds == 1..MaxId
AllIds == {StartId} \cup UserIds
Coords == 0..MaxCoord
Vectors == [1..VectorSize -> Coords]
\* A random vector with components in [-1,1], L2-normalised.
UnitVectors == {v \in Vectors : \E i \in 1..VectorSize :
                  /\ v[i] \in {0 - 1, 1}
                  /\ \A j \in 1..VectorSize : j # i => v[j] = 0}
SearchSizes == 1..MaxSearchSize
DegreeBounds == 0..MaxDegreeBound

VARIABLES
  points,       \* the points bucket: id -> [exists, vector, edges]
  startId,      \* internal.startId
  pointCount,   \* internal.pointCount (absent reads as 0)
  isOpen,       \* the shard handle is open
  searchSize,   \* collection.Parameters.SearchSize
  degreeBound,  \* collection.Parameters.DegreeBound
  last,         \* the last call: its error, the ids it stored or returned, and
                \* what its input was like (dup: a batch to insert repeated an id
                \* or named a stored one; found: the ids of a batch to update
                \* that were stored)
  deleted,      \* ids a committed DeletePoints removed and no insert restored
  gs,           \* a greedySearch run step by step (specification GSSpec)
  shardStore,   \* c.shardStore: shard directory -> the loaded shard's handle
  shardLock,    \* c.shardLock: who holds the manager's mutex
  handles,      \* the shard handles NewShard has returned to the manager
  tasks,        \* the cleanup goroutine of each handle: where it stands
  callers,      \* the goroutines that call DoWithShard: where each stands
  colMetric,    \* the distance metric of the collection of each directory
  key,          \* the key a client has composed
  servers,      \* c.Servers
  placement,    \* what KeyPlacement returned for the key, once it was called
  write,        \* a ClusterWrite call: its target servers, its counts, its result
  txn,          \* a write and a read transaction on the points bucket, step by step
  idc,          \* an IdCounter and the bucket it is flushed to
  dset,         \* a DistSet under add, sort, remove, keepFirstK and pop
  prune,        \* a robustPrune call: its inputs and the edge list it assigned
  store,        \* a PointCache: its CachePoints, its map and its bucket
  nbr,          \* the goroutines in WithPointNeighbours on one CachePoint
  colls,        \* the collections in the key-value store and a list request
  scan          \* a ClusterScan call: its target servers, its counts, its result

shardVars == <<points, startId, pointCount, isOpen, searchSize, degreeBound, last, deleted>>
mgrVars == <<shardStore, shardLock, handles, tasks, callers, colMetric>>
plVars == <<key, servers, placement>>
restVars == <<store, nbr, colls, scan>>
auxVars == <<write, txn, idc, dset, prune, restVars>>
vars == <<shardVars, gs, mgrVars, plVars, auxVars>>

\* ----------------------------------------------------------------- helpers
SeqToSet(s) == {s[i] : i \in 1..Len(s)}

Contains(s, x) == \E i \in 1..Len(s) : s[i] = x

Min2(a, b) == IF a < b THEN a ELSE b

RECURSIVE eucDistFrom(_, _, _)
eucDistFrom(x, y, i) ==
  IF i > Len(x) THEN 0
  ELSE (x[i] - y[i]) * (x[i] - y[i]) + eucDistFrom(x, y, i + 1)

eucDist(x, y) == eucDistFrom(x, y, 1)

\* ----------------------------------------------------------------- DistSet
\* items: the ordered array; set: the membership set; an element carries the
\* point (id and vector), its distance to the query and the visited flag.
\* panic: a distance was asked for between a vector and a shorter one, where
\* eucDist indexes out of range.
\* distFn names the distance function the set was made with: s.distFn, which
\* NewShard selects from the collection's metric.
NewDistSetWith(queryVector, distFn) ==
  [items |-> <<>>, set |-> {}, queryVector |-> queryVector, panic |-> FALSE,
   distFn |-> distFn]

NewDistSet(queryVector) == NewDistSetWith(queryVector, "EuclideanDistance")

RECURSIVE DotFrom(_, _, _)
DotFrom(x, y, i) == IF i > Len(x) THEN 0 ELSE x[i] * y[i] + DotFrom(x, y, i + 1)

\* The cosine distance of two vectors of norm 1.
CosineDistance(x, y) == 1 - DotFrom(x, y, 1)

\* ds.distFn(x, y)
DistFn(distFn, x, y) ==
  IF distFn = "CosineDistance" THEN CosineDistance(x, y) ELSE eucDist(x, y)

DistSetLen(ds) == Cardinality(ds.set)

RECURSIVE AddPointFrom(_, _, _)
AddPointFrom(ds, ps, i) ==
  IF i > Len(ps) \/ ds.panic THEN ds
  ELSE IF ps[i].id \in ds.set THEN AddPointFrom(ds, ps, i + 1)
  ELSE IF Len(ps[i].vector) > Len(ds.queryVector) THEN [ds EXCEPT !.panic = TRUE]
  ELSE AddPointFrom(
         [ds EXCEPT !.set = @ \cup {ps[i].id},
                    !.items = Append(@, [id |-> ps[i].id, vector |-> ps[i].vector,
                                         distance |-> DistFn(ds.distFn, ps[i].vector, ds.queryVector),
                                         visited |-> FALSE])],
         ps, i + 1)

AddPoint(ds, ps) == AddPointFrom(ds, ps, 1)

RECURSIVE AddFrom(_, _, _)
AddFrom(ds, es, i) ==
  IF i > Len(es) THEN ds
  ELSE IF es[i].id \in ds.set THEN AddFrom(ds, es, i + 1)
  ELSE AddFrom([ds EXCEPT !.set = @ \cup {es[i].id}, !.items = Append(@, es[i])], es, i + 1)

Add(ds, es) == AddFrom(ds, es, 1)

\* slices.SortFunc on at most 12 elements is an insertion sort: an element moves
\* left while it compares less than its predecessor.
RECURSIVE InsertLeft(_, _)
InsertLeft(sorted, e) ==
  IF sorted = <<>> THEN <<e>>
  ELSE IF e.distance < sorted[Len(sorted)].distance
       THEN Append(InsertLeft(SubSeq(sorted, 1, Len(sorted) - 1), e), sorted[Len(sorted)])
       ELSE Append(sorted, e)

RECURSIVE SortItems(_)
SortItems(items) ==
  IF items = <<>> THEN <<>>
  ELSE InsertLeft(SortItems(SubSeq(items, 1, Len(items) - 1)), items[Len(items)])

\* A Sort whose comparison is the wrong way round: farthest first.
SortFarthestFirst(ds) ==
  [ds EXCEPT !.items = [i \in 1..Len(@) |-> SortItems(@)[Len(@) + 1 - i]]]

Sort(ds) == [ds EXCEPT !.items = SortItems(@)]

\* The first index of items whose id is still in the set, Len(items)+1 if none.
RECURSIVE FirstInSet(_, _, _)
FirstInSet(items, set, i) ==
  IF i > Len(items) THEN i
  ELSE IF items[i].id \in set THEN i
  ELSE FirstInSet(items, set, i + 1)

\* A Pop that returns the first element of the array, member or not.
PopFirstItem(ds) ==
  IF ds.items = <<>>
  THEN [ok |-> FALSE, elem |-> [id |-> StartId, vector |-> <<>>, distance |-> 0, visited |-> FALSE],
        ds |-> ds]
  ELSE [ok |-> TRUE, elem |-> ds.items[1],
        ds |-> [ds EXCEPT !.set = @ \ {ds.items[1].id}, !.items = SubSeq(@, 2, Len(@))]]

\* Pop: [elem, ok, ds]; ok is FALSE when no element of items is in the set,
\* and then the zero DistSetElem is returned.
Pop(ds) ==
  LET i == FirstInSet(ds.items, ds.set, 1) IN
  IF i > Len(ds.items)
  THEN [ok |-> FALSE, elem |-> [id |-> StartId, vector |-> <<>>, distance |-> 0, visited |-> FALSE],
        ds |-> [ds EXCEPT !.items = <<>>]]
  ELSE [ok |-> TRUE, elem |-> ds.items[i],
        ds |-> [ds EXCEPT !.set = @ \ {ds.items[i].id},
                          !.items = SubSeq(@, i + 1, Len(@))]]

KeepFirstK(ds, k) ==
  IF k < Len(ds.items)
  THEN [ds EXCEPT !.set = @ \ {ds.items[i].id : i \in (k + 1)..Len(ds.items)},
                  !.items = SubSeq(@, 1, k)]
  ELSE ds

Remove(ds, id) == [ds EXCEPT !.set = @ \ {id}]

\* ------------------------------------------------------------- point cache
\* A cache is scoped to one transaction.  cache[id].cached holds for the points
\* the transaction has set or changed; a point that was only read equals its
\* bucket entry, so a read goes through to the bucket.
NoPoint == [exists |-> FALSE, vector |-> <<>>, edges |-> <<>>]

NoCachePoint ==
  [cached |-> FALSE, vector |-> <<>>, edges |-> <<>>,
   isDirty |-> FALSE, isEdgeDirty |-> FALSE, isDeleted |-> FALSE]

NewPointCache(bucket) ==
  [cache |-> [id \in AllIds |-> NoCachePoint], bucket |-> bucket, err |-> ""]

HasPoint(w, id) == w.cache[id].cached \/ w.bucket[id].exists

\* GetPoint: the cached point, else the point loaded from the bucket.
GetPoint(w, id) ==
  IF w.cache[id].cached THEN w.cache[id]
  ELSE [cached |-> TRUE, vector |-> w.bucket[id].vector, edges |-> w.bucket[id].edges,
        isDirty |-> FALSE, isEdgeDirty |-> FALSE, isDeleted |-> FALSE]

\* SetPoint puts a new CachePoint in the map, marked dirty.
SetPoint(w, sp) ==
  [w EXCEPT !.cache[sp.id] =
     [cached |-> TRUE, vector |-> sp.vector, edges |-> sp.edges,
      isDirty |-> TRUE, isEdgeDirty |-> FALSE, isDeleted |-> FALSE]]

\* The neighbours of a point: each edge id resolved with GetPoint; an edge to
\* a point that does not exist is an error.
GetPointNeighbours(w, id) ==
  LET edges == GetPoint(w, id).edges IN
  IF \E i \in 1..Len(edges) : ~HasPoint(w, edges[i])
  THEN [err |-> "notfound", points |-> <<>>]
  ELSE [err |-> "",
        points |-> [i \in 1..Len(edges) |->
                      [id |-> edges[i], vector |-> GetPoint(w, edges[i]).vector]]]

\* AddNeighbour appends q to p's edges and marks the edges dirty.
AddNeighbour(w, p, q) ==
  [w EXCEPT !.cache[p] = [GetPoint(w, p) EXCEPT !.edges = Append(@, q), !.isEdgeDirty = TRUE]]

SetEdges(w, p, edges) ==
  [w EXCEPT !.cache[p] = [GetPoint(w, p) EXCEPT !.edges = edges, !.isEdgeDirty = TRUE]]

\* A Flush that stores a deleted point like any other point.
FlushPointKeepsDeleted(cp, bp) ==
  IF ~cp.cached THEN bp
  ELSE IF cp.isDirty THEN [exists |-> TRUE, vector |-> cp.vector, edges |-> cp.edges]
  ELSE IF cp.isEdgeDirty THEN [bp EXCEPT !.edges = cp.edges]
  ELSE bp

\* Flush: a deleted point leaves the bucket, a dirty point is stored in full,
\* an edge-dirty point has its edges stored.
FlushPoint(cp, bp) ==
  IF ~cp.cached THEN bp
  ELSE IF cp.isDeleted THEN NoPoint
  ELSE IF cp.isDirty THEN [exists |-> TRUE, vector |-> cp.vector, edges |-> cp.edges]
  ELSE IF cp.isEdgeDirty THEN [bp EXCEPT !.edges = cp.edges]
  ELSE bp

Flush(w) == [id \in AllIds |-> FlushPoint(w.cache[id], w.bucket[id])]

\* ------------------------------------------------------------ greedySearch
\* The index of the first element of the search set that is not visited,
\* 0 when every element is visited.
RECURSIVE FirstUnvisited(_, _, _)
FirstUnvisited(items, n, i) ==
  IF i > n THEN 0
  ELSE IF items[i].visited THEN FirstUnvisited(items, n, i + 1)
  ELSE i

\* One visit: mark items[i] visited, add it to the visited set and add its
\* neighbours to the search set (not yet sorted).
GreedyVisit(w, searchSet, visitedSet, i) ==
  LET node == [searchSet.items[i] EXCEPT !.visited = TRUE]
      nb == GetPointNeighbours(w, node.id)
      added == AddPoint([searchSet EXCEPT !.items[i] = node], nb.points)
  IN [err |-> IF nb.err # "" THEN nb.err ELSE IF added.panic THEN "panic" ELSE "",
      searchSet |-> added,
      visitedSet |-> Add(visitedSet, <<node>>)]

GreedyTruncate(ds, S) == IF DistSetLen(ds) > S THEN KeepFirstK(ds, S) ELSE ds

RECURSIVE GreedyLoop(_, _, _, _)
GreedyLoop(w, searchSet, visitedSet, S) ==
  LET i == FirstUnvisited(searchSet.items, Min2(DistSetLen(searchSet), Len(searchSet.items)), 1) IN
  IF i = 0
  THEN [err |-> "", searchSet |-> searchSet, visitedSet |-> Sort(visitedSet)]
  ELSE LET v == GreedyVisit(w, searchSet, visitedSet, i) IN
       IF v.err # ""
       THEN [err |-> v.err, searchSet |-> v.searchSet, visitedSet |-> v.visitedSet]
       ELSE GreedyLoop(w, GreedyTruncate(Sort(v.searchSet), S), v.visitedSet, S)

greedySearch(w, startPointId, query, k, S) ==
  IF S < k
  THEN [err |-> "searchsize", searchSet |-> NewDistSet(query), visitedSet |-> NewDistSet(query)]
  ELSE IF ~HasPoint(w, startPointId)
  THEN [err |-> "notfound", searchSet |-> NewDistSet(query), visitedSet |-> NewDistSet(query)]
  ELSE IF Len(GetPoint(w, startPointId).vector) > Len(query)
  THEN [err |-> "panic", searchSet |-> NewDistSet(query), visitedSet |-> NewDistSet(query)]
  ELSE GreedyLoop(w,
         AddPoint(NewDistSet(query),
                  <<[id |-> startPointId, vector |-> GetPoint(w, startPointId).vector]>>),
         NewDistSet(query), S)

\* ------------------------------------------------------------- robustPrune
\* Removes from the set every remaining candidate that the chosen element
\* dominates: alpha * d(closest, cand) <= cand.distance.
RECURSIVE PruneDominated(_, _, _)
PruneDominated(ds, closest, i) ==
  IF i > Len(ds.items) THEN ds
  ELSE LET cand == ds.items[i] IN
       IF cand.id \in ds.set /\ Len(closest.vector) > Len(cand.vector)
       THEN [ds EXCEPT !.panic = TRUE]
       ELSE IF cand.id \in ds.set
          /\ Alpha[1] * eucDist(closest.vector, cand.vector) <= Alpha[2] * cand.distance
       THEN PruneDominated(Remove(ds, cand.id), closest, i + 1)
       ELSE PruneDominated(ds, closest, i + 1)

RECURSIVE PruneLoop(_, _, _)
PruneLoop(ds, newNeighbours, R) ==
  IF ds.panic THEN [panic |-> TRUE, edges |-> newNeighbours]
  ELSE IF DistSetLen(ds) <= 0 THEN [panic |-> FALSE, edges |-> newNeighbours]
  ELSE LET p == Pop(ds)
           chosen == Append(newNeighbours, p.elem.id)
       IN IF Len(chosen) >= R THEN [panic |-> FALSE, edges |-> chosen]
          ELSE PruneLoop(PruneDominated(p.ds, p.elem, 1), chosen, R)

\* robustPrune merges the point's neighbours into the candidates, sorts, drops
\* the point itself and selects; the selection becomes the point's edges.
robustPrune(w, id, candidateSet, R) ==
  LET nb == GetPointNeighbours(w, id) IN
  IF candidateSet.panic THEN [w EXCEPT !.err = "panic"]
  ELSE IF nb.err # "" THEN [w EXCEPT !.err = nb.err]
  ELSE LET cands == Remove(Sort(AddPoint(candidateSet, nb.points)), id)
           pruned == PruneLoop(cands, <<>>, R)
       IN IF pruned.panic THEN [w EXCEPT !.err = "panic"]
          ELSE SetEdges(w, id, pruned.edges)

\* ------------------------------------------------------- insertSinglePoint
\* The bi-directional edges: a neighbour at the degree bound is pruned with the
\* new point among its candidates, any other neighbour gets the edge appended.
RECURSIVE AddBiEdges(_, _, _, _, _)
AddBiEdges(w, id, edges, i, R) ==
  IF w.err # "" \/ i > Len(edges) THEN w
  ELSE LET nId == edges[i] IN
       IF ~HasPoint(w, nId) THEN [w EXCEPT !.err = "notfound"]
       ELSE LET n == GetPoint(w, nId) IN
            IF Len(n.edges) + 1 > R
            THEN LET nn == GetPointNeighbours(w, nId) IN
                 IF nn.err # "" THEN [w EXCEPT !.err = nn.err]
                 ELSE AddBiEdges(
                        robustPrune(w, nId,
                          Sort(AddPoint(AddPoint(NewDistSet(n.vector), nn.points),
                                        <<[id |-> id, vector |-> GetPoint(w, id).vector]>>)),
                          R),
                        id, edges, i + 1, R)
            ELSE AddBiEdges(AddNeighbour(w, nId, id), id, edges, i + 1, R)

insertSinglePoint(w, startPointId, sp, S, R) ==
  LET w1 == SetPoint(w, sp)
      g == greedySearch(w1, startPointId, sp.vector, 1, S)
  IN IF g.err # "" THEN [w1 EXCEPT !.err = g.err]
     ELSE LET w2 == robustPrune(w1, sp.id, g.visitedSet, R)
          IN AddBiEdges(w2, sp.id, GetPoint(w2, sp.id).edges, 1, R)

\* ---------------------------------------------------- pruneDeleteNeighbour
\* The candidates of a point whose neighbours are being removed: a neighbour
\* in deleteSet is replaced by its own neighbours.
RECURSIVE DeleteCandidates(_, _, _, _, _)
DeleteCandidates(w, ds, nbs, i, deleteSet) ==
  IF ds.panic THEN [err |-> "panic", ds |-> ds]
  ELSE IF i > Len(nbs) THEN [err |-> "", ds |-> ds]
  ELSE IF nbs[i].id \in deleteSet
  THEN LET dn == GetPointNeighbours(w, nbs[i].id) IN
       IF dn.err # "" THEN [err |-> dn.err, ds |-> ds]
       ELSE DeleteCandidates(w, AddPoint(ds, dn.points), nbs, i + 1, deleteSet)
  ELSE DeleteCandidates(w, AddPoint(ds, <<nbs[i]>>), nbs, i + 1, deleteSet)

pruneDeleteNeighbour(w, id, deleteSet, R) ==
  IF ~HasPoint(w, id) THEN [w EXCEPT !.err = "notfound"]
  ELSE LET nb == GetPointNeighbours(w, id) IN
       IF nb.err # "" THEN [w EXCEPT !.err = nb.err]
       ELSE LET c == DeleteCandidates(w, NewDistSet(GetPoint(w, id).vector), nb.points, 1, deleteSet)
            IN IF c.err # "" THEN [w EXCEPT !.err = c.err]
               ELSE robustPrune(w, id, Sort(c.ds), R)

\* -------------------------------------------------------- shard operations
changePointCount(count, change) == count + change

\* The closure InsertPoints runs in its write transaction, up to the flush.
RECURSIVE InsertLoop(_, _, _, _, _, _)
InsertLoop(w, sid, batch, i, S, R) ==
  IF w.err # "" \/ i > Len(batch) THEN w
  ELSE IF HasPoint(w, batch[i].id) THEN [w EXCEPT !.err = "exists"]
  ELSE InsertLoop(
         insertSinglePoint(w, sid, [id |-> batch[i].id, vector |-> batch[i].vector, edges |-> <<>>], S, R),
         sid, batch, i + 1, S, R)

\* The closure UpdatePoints runs: [w, results].
RECURSIVE PruneEdgesOf(_, _, _, _, _)
PruneEdgesOf(w, id, edges, i, R) ==
  IF w.err # "" \/ i > Len(edges) THEN w
  ELSE PruneEdgesOf(pruneDeleteNeighbour(w, edges[i], {id}, R), id, edges, i + 1, R)

RECURSIVE UpdateLoop(_, _, _, _, _, _, _)
UpdateLoop(w, sid, batch, i, S, R, results) ==
  IF w.err # "" \/ i > Len(batch) THEN [w |-> w, results |-> results]
  ELSE IF ~HasPoint(w, batch[i].id) THEN UpdateLoop(w, sid, batch, i + 1, S, R, results)
  ELSE LET w1 == PruneEdgesOf(w, batch[i].id, GetPoint(w, batch[i].id).edges, 1, R) IN
       IF w1.err # "" THEN [w |-> w1, results |-> results]
       ELSE LET w2 == insertSinglePoint(w1, sid,
                        [id |-> batch[i].id, vector |-> batch[i].vector, edges |-> <<>>], S, R)
            IN IF w2.err # "" THEN [w |-> w2, results |-> results]
               ELSE UpdateLoop(w2, sid, batch, i + 1, S, R, Append(results, batch[i].id))

\* DeletePoints: the points of deleteSet that exist are marked deleted, their
\* surviving neighbours are pruned in the order the map iteration yields.
MarkDeleted(w, deleteSet) ==
  [w EXCEPT !.cache = [id \in AllIds |->
     IF id \in deleteSet /\ HasPoint(w, id)
     THEN [GetPoint(w, id) EXCEPT !.isDeleted = TRUE]
     ELSE w.cache[id]]]

DeletedIds(w, deleteSet) == {id \in deleteSet : HasPoint(w, id)}

ToPrune(w, deleteSet) ==
  UNION {SeqToSet(GetPoint(w, id).edges) \ deleteSet : id \in DeletedIds(w, deleteSet)}

RECURSIVE PruneAll(_, _, _, _, _)
PruneAll(w, order, i, deleteSet, R) ==
  IF w.err # "" \/ i > Len(order) THEN w
  ELSE PruneAll(pruneDeleteNeighbour(w, order[i], deleteSet, R), order, i + 1, deleteSet, R)

\* A result loop that does not skip the start point.
RECURSIVE CollectResultsWithStart(_, _, _, _, _)
CollectResultsWithStart(items, i, sid, k, results) ==
  IF i > Len(items) THEN results
  ELSE IF Len(results) >= k THEN results
  ELSE CollectResultsWithStart(items, i + 1, sid, k, Append(results, items[i].id))

\* SearchPoints: the ids of the result, in order.
RECURSIVE CollectResults(_, _, _, _, _)
CollectResults(items, i, sid, k, results) ==
  IF i > Len(items) THEN results
  ELSE IF items[i].id = sid THEN CollectResults(items, i + 1, sid, k, results)
  ELSE IF Len(results) >= k THEN results
  ELSE CollectResults(items, i + 1, sid, k, Append(results, items[i].id))

SearchPoints(bucket, sid, query, k, S) ==
  LET g == greedySearch(NewPointCache(bucket), sid, query, k, S) IN
  IF g.err # "" THEN [err |-> g.err, ids |-> <<>>]
  ELSE [err |-> "", ids |-> CollectResults(KeepFirstK(g.searchSet, k).items, 1, sid, k, <<>>)]

\* ------------------------------------------------------------------ inputs
InputPoints == [id : AllIds, vector : Vectors]
Batches == UNION {[1..n -> InputPoints] : n \in 0..MaxBatch}
DeleteSets == SUBSET AllIds
Orders(S) == {o \in [1..Cardinality(S) -> S] : \A i, j \in 1..Cardinality(S) : i # j => o[i] # o[j]}
IdsOf(batch) == [i \in 1..Len(batch) |-> batch[i].id]
NoStartId == StartId - 1
\* Some id of the batch is stored already or occurs earlier in the batch.
HasDuplicate(bucket, batch) ==
  \E i \in 1..Len(batch) :
    \/ bucket[batch[i].id].exists
    \/ \E j \in 1..(i - 1) : batch[j].id = batch[i].id

\* The ids of the batch that the bucket holds, in the order of the batch.
ExistingIds(bucket, batch) == SelectSeq(IdsOf(batch), LAMBDA id : bucket[id].exists)

\* --------------------------------------------------------------- the shard
NoGS == [pc |-> "idle"]

\* The shard manager before any LoadShard: nothing loaded, the lock free.
ShardDirs == 1..MaxDirs
Handles == 1..MaxHandles
Callers == 1..MaxCallers
Metrics == {"euclidean", "cosine", "manhattan"}
NoHandle == 0
Unlocked == <<>>
NoShard == [state |-> "none", dir |-> 0, metric |-> "", distFn |-> ""]
IdleCaller == [pc |-> "idle", dir |-> 0, h |-> NoHandle, err |-> ""]

MgrIdle ==
  /\ shardStore = [d \in ShardDirs |-> NoHandle]
  /\ shardLock = Unlocked
  /\ handles = [h \in Handles |-> NoShard]
  /\ tasks = [h \in Handles |-> "none"]
  /\ callers = [c \in Callers |-> IdleCaller]
  /\ colMetric = [d \in ShardDirs |-> "euclidean"]

\* No KeyPlacement call yet.
NoResult == [called |-> FALSE, key |-> <<>>, err |-> "", servers |-> <<>>]

NoPlacement ==
  /\ key = <<>>
  /\ servers = <<>>
  /\ placement = NoResult

NoWrite == [pc |-> "idle", targets |-> <<>>, successCount |-> 0, conflictCount |-> 0,
            timeoutCount |-> 0, otherCount |-> 0, ret |-> ""]

\* Nothing but the shard, the manager or the placement is in use.
NoTxn ==
  [wpc |-> "idle", wcache |-> [id \in AllIds |-> NoCachePoint],
   rpc |-> "idle", rsnap |-> [id \in AllIds |-> NoPoint],
   rcache |-> [id \in AllIds |-> NoCachePoint],
   obtained |-> <<>>, everCommitted |-> {}]

NoIdc == <<>>

NoDset == <<>>

NoPrune == <<>>

NoStore == <<>>

NoNbr == <<>>

NoColls == <<>>

NoScan == <<>>

RestIdle ==
  /\ store = NoStore
  /\ nbr = NoNbr
  /\ colls = NoColls
  /\ scan = NoScan

AuxIdle ==
  /\ write = NoWrite
  /\ txn = NoTxn
  /\ idc = NoIdc
  /\ dset = NoDset
  /\ prune = NoPrune
  /\ RestIdle

Init ==
  /\ points = [id \in AllIds |-> NoPoint]
  /\ startId = NoStartId
  /\ pointCount = 0
  /\ isOpen = FALSE
  /\ searchSize \in SearchSizes
  /\ degreeBound \in DegreeBounds
  /\ last = [op |-> "none", err |-> "", ids |-> <<>>, dup |-> FALSE, found |-> <<>>]
  /\ deleted = {}
  /\ gs = NoGS
  /\ MgrIdle
  /\ NoPlacement
  /\ AuxIdle

\* NewShard on a fresh file creates the start point with a random unit vector;
\* on an existing file it finds startId.
NewShard ==
  /\ ~isOpen
  /\ isOpen' = TRUE
  /\ IF startId = NoStartId
     THEN \E v \in UnitVectors :
            /\ points' = [points EXCEPT ![StartId] = [exists |-> TRUE, vector |-> v, edges |-> <<>>]]
            /\ startId' = StartId
     ELSE UNCHANGED <<points, startId>>
  /\ last' = [op |-> "NewShard", err |-> "", ids |-> <<>>, dup |-> FALSE, found |-> <<>>]
  /\ UNCHANGED <<pointCount, searchSize, degreeBound, deleted, gs, mgrVars, plVars, auxVars>>

Close ==
  /\ isOpen
  /\ isOpen' = FALSE
  /\ last' = [op |-> "Close", err |-> "", ids |-> <<>>, dup |-> FALSE, found |-> <<>>]
  /\ UNCHANGED <<points, startId, pointCount, searchSize, degreeBound, deleted, gs, mgrVars, plVars, auxVars>>

Info ==
  /\ isOpen
  /\ last' = [op |-> "Info", err |-> "", ids |-> <<>>, dup |-> FALSE, found |-> <<>>]
  /\ UNCHANGED <<points, startId, pointCount, isOpen, searchSize, degreeBound, deleted, gs, mgrVars, plVars, auxVars>>

\* A panic is recovered nowhere: the transaction is rolled back as the panic
\* unwinds and the process ends, and with it the shard handle.
Survives(err) == err # "panic"

\* A transaction that keeps what the closure wrote although it failed.
CommitDespiteError(w, count) ==
  /\ points' = Flush(w)
  /\ pointCount' = count

\* A write transaction commits what the closure flushed when the closure
\* returns nil, and rolls back when it returns an error.
Commit(w, count) ==
  IF w.err = ""
  THEN /\ points' = Flush(w)
       /\ pointCount' = count
  ELSE UNCHANGED <<points, pointCount>>

InsertPoints(batch) ==
  /\ isOpen
  /\ \E w \in {InsertLoop(NewPointCache(points), startId, batch, 1, searchSize, degreeBound)} :
       /\ Commit(w, changePointCount(pointCount, Len(batch)))
       /\ last' = [op |-> "InsertPoints", err |-> w.err,
                   ids |-> IF w.err = "" THEN IdsOf(batch) ELSE <<>>,
                   dup |-> HasDuplicate(points, batch), found |-> <<>>]
       /\ deleted' = IF w.err = "" THEN deleted \ SeqToSet(IdsOf(batch)) ELSE deleted
       /\ isOpen' = Survives(w.err)
  /\ UNCHANGED <<startId, searchSize, degreeBound, gs, mgrVars, plVars, auxVars>>

UpdatePoints(batch) ==
  /\ isOpen
  /\ \E u \in {UpdateLoop(NewPointCache(points), startId, batch, 1, searchSize, degreeBound, <<>>)} :
       /\ Commit(u.w, pointCount)
       /\ last' = [op |-> "UpdatePoints", err |-> u.w.err,
                   ids |-> IF u.w.err = "" THEN u.results ELSE <<>>,
                   dup |-> FALSE, found |-> ExistingIds(points, batch)]
       /\ isOpen' = Survives(u.w.err)
  /\ UNCHANGED <<startId, searchSize, degreeBound, deleted, gs, mgrVars, plVars, auxVars>>

DeletePoints(deleteSet) ==
  /\ isOpen
  /\ LET w0 == NewPointCache(points)
         deletedIds == DeletedIds(w0, deleteSet)
         toPrune == ToPrune(w0, deleteSet)
     IN \E order \in Orders(toPrune) :
          \E w \in {PruneAll(MarkDeleted(w0, deleteSet), order, 1, deleteSet, degreeBound)} :
            /\ Commit(w, changePointCount(pointCount, 0 - Cardinality(deletedIds)))
            /\ last' = [op |-> "DeletePoints", err |-> w.err, ids |-> <<>>, dup |-> FALSE, found |-> <<>>]
            /\ deleted' = IF w.err = "" THEN deleted \cup deletedIds ELSE deleted
            /\ isOpen' = Survives(w.err)
  /\ UNCHANGED <<startId, searchSize, degreeBound, gs, mgrVars, plVars, auxVars>>

Search(query, k) ==
  /\ isOpen
  /\ \E r \in {SearchPoints(points, startId, query, k, searchSize)} :
       /\ last' = [op |-> "SearchPoints", err |-> r.err, ids |-> r.ids, dup |-> FALSE, found |-> <<>>]
       /\ isOpen' = Survives(r.err)
  /\ UNCHANGED <<points, startId, pointCount, searchSize, degreeBound, deleted, gs, mgrVars, plVars, auxVars>>

Next ==
  \/ NewShard
  \/ Close
  \/ Info
  \/ \E batch \in Batches : InsertPoints(batch)
  \/ \E batch \in Batches : UpdatePoints(batch)
  \/ \E deleteSet \in DeleteSets : DeletePoints(deleteSet)
  \/ \E query \in Vectors, k \in 0..MaxK : Search(query, k)

Spec == Init /\ [][Next]_vars

\* ------------------------------------------- greedySearch, step by step
\* slices.SortFunc does not promise to keep equal elements in their order:
\* every arrangement of the items in ascending distance is an outcome.
Arrangements(n) == {f \in [1..n -> 1..n] : \A i, j \in 1..n : i # j => f[i] # f[j]}

SortOutcomes(items) ==
  {sorted \in {[i \in 1..Len(items) |-> items[f[i]]] : f \in Arrangements(Len(items))} :
     \A i \in 1..(Len(items) - 1) : sorted[i].distance <= sorted[i + 1].distance}

\* The edge lists a point of a graph in the cache may have.
EdgeLists(id) ==
  {e \in UNION {[1..n -> AllIds \ {id}] : n \in 0..MaxDegreeBound} :
     \A i, j \in 1..Len(e) : i # j => e[i] # e[j]}

\* A graph in the cache: every id is a point, with any vector and edges.
GSInit ==
  /\ points \in [AllIds -> [exists : {TRUE}, vector : Vectors,
                           edges : UNION {EdgeLists(id) : id \in AllIds}]]
  /\ \A id \in AllIds : points[id].edges \in EdgeLists(id)
  /\ startId = StartId
  /\ pointCount = MaxId
  /\ isOpen = TRUE
  /\ searchSize \in SearchSizes
  /\ degreeBound = MaxDegreeBound
  /\ last = [op |-> "none", err |-> "", ids |-> <<>>, dup |-> FALSE, found |-> <<>>]
  /\ deleted = {}
  /\ gs = NoGS
  /\ MgrIdle
  /\ NoPlacement
  /\ AuxIdle

\* The state of the loop: the search set (order and visited flags) and the
\* visited set.  gs.mark remembers one state the loop has left, any one; pc is
\* "again" when the loop is back in it, and the run is followed no further:
\* from there it repeats.
NoMark == [searchSet |-> <<>>, visitedSet |-> <<>>]

LoopState == [searchSet |-> gs.searchSet, visitedSet |-> gs.visitedSet]

\* greedySearch up to its loop: the start point is the search set.
GreedyStart(query) ==
  /\ gs.pc = "idle"
  /\ gs' = [pc |-> "loop",
            searchSet |-> AddPoint(NewDistSet(query),
                            <<[id |-> startId, vector |-> points[startId].vector]>>),
            visitedSet |-> NewDistSet(query),
            mark |-> NoMark]
  /\ UNCHANGED <<shardVars, mgrVars, plVars, auxVars>>

\* One iteration that finds an unvisited element: visit, sort, truncate.
\* The outcomes differ in the order the sort leaves equal distances in.
IterateOutcomes(bucket, searchSet, visitedSet, S) ==
  LET i == FirstUnvisited(searchSet.items,
             Min2(DistSetLen(searchSet), Len(searchSet.items)), 1)
      v == GreedyVisit(NewPointCache(bucket), searchSet, visitedSet, i)
  IN {[searchSet |-> GreedyTruncate([v.searchSet EXCEPT !.items = sorted], S),
       visitedSet |-> v.visitedSet] : sorted \in SortOutcomes(v.searchSet.items)}

GreedyIterate ==
  /\ gs.pc = "loop"
  /\ FirstUnvisited(gs.searchSet.items,
       Min2(DistSetLen(gs.searchSet), Len(gs.searchSet.items)), 1) # 0
  /\ \E o \in IterateOutcomes(points, gs.searchSet, gs.visitedSet, searchSize) :
     \E mark \in (IF gs.mark = NoMark THEN {NoMark, LoopState} ELSE {gs.mark}) :
       gs' = [pc |-> IF o = mark THEN "again" ELSE "loop",
              searchSet |-> o.searchSet, visitedSet |-> o.visitedSet,
              mark |-> mark]
  /\ UNCHANGED <<shardVars, mgrVars, plVars, auxVars>>

\* The loop ends when every element of the search set is visited.
GreedyReturn ==
  /\ gs.pc = "loop"
  /\ FirstUnvisited(gs.searchSet.items,
       Min2(DistSetLen(gs.searchSet), Len(gs.searchSet.items)), 1) = 0
  /\ gs' = [gs EXCEPT !.pc = "done", !.visitedSet = Sort(@)]
  /\ UNCHANGED <<shardVars, mgrVars, plVars, auxVars>>

GSNext ==
  \/ \E query \in Vectors : GreedyStart(query)
  \/ GreedyIterate
  \/ GreedyReturn

\* The search is one sequential run: it takes its next step whenever it has one.
GSSpec == GSInit /\ [][GSNext]_vars /\ WF_vars(GSNext)

\* ------------------------------------------- vectors of another length
\* The shard is given points and queries whose vectors are one component
\* shorter or longer than the collection's vectorSize.
OtherVectors == [1..(VectorSize - 1) -> Coords] \cup [1..(VectorSize + 1) -> Coords]

AnyVectors == Vectors \cup OtherVectors

VecBatches == {<<[id |-> id, vector |-> v]>> : id \in AllIds, v \in AnyVectors}

VecInit ==
  /\ points = [id \in AllIds |-> NoPoint]
  /\ startId = NoStartId
  /\ pointCount = 0
  /\ isOpen = FALSE
  /\ searchSize = MaxSearchSize
  /\ degreeBound = MaxDegreeBound
  /\ last = [op |-> "none", err |-> "", ids |-> <<>>, dup |-> FALSE, found |-> <<>>]
  /\ deleted = {}
  /\ gs = NoGS
  /\ MgrIdle
  /\ NoPlacement
  /\ AuxIdle

VecNext ==
  \/ NewShard
  \/ \E batch \in VecBatches : InsertPoints(batch)
  \/ \E batch \in VecBatches : UpdatePoints(batch)
  \/ \E query \in AnyVectors, k \in 0..MaxK : Search(query, k)

VecSpec == VecInit /\ [][VecNext]_vars

\* ----------------------------------------------------------- shard manager
\* NewShard as LoadShard calls it: the distance function is chosen from the
\* collection's metric; no metric makes it fail.
OpenShard(shardDir, metric) ==
  [err |-> "",
   shard |-> [state |-> "open", dir |-> shardDir, metric |-> metric,
              distFn |-> IF metric = "cosine" THEN "CosineDistance" ELSE "EuclideanDistance"]]

\* A LoadShard that never finds the directory in the map.
CachedNever(shardDir) == FALSE

\* c.shardStore[shardDir] is present.
Cached(shardDir) == shardStore[shardDir] # NoHandle

MgrInit ==
  /\ points = [id \in AllIds |-> NoPoint]
  /\ startId = NoStartId
  /\ pointCount = 0
  /\ isOpen = FALSE
  /\ searchSize = MaxSearchSize
  /\ degreeBound = MaxDegreeBound
  /\ last = [op |-> "none", err |-> "", ids |-> <<>>, dup |-> FALSE, found |-> <<>>]
  /\ deleted = {}
  /\ gs = NoGS
  /\ shardStore = [d \in ShardDirs |-> NoHandle]
  /\ shardLock = Unlocked
  /\ handles = [h \in Handles |-> NoShard]
  /\ tasks = [h \in Handles |-> "none"]
  /\ callers = [c \in Callers |-> IdleCaller]
  /\ colMetric \in [ShardDirs -> Metrics]
  /\ NoPlacement
  /\ AuxIdle

\* LoadShard finds the directory in the map: it holds the lock and sends the
\* reset signal, which blocks until the cleanup goroutine receives it.
LoadCached(c, shardDir) ==
  /\ callers[c].pc = "idle"
  /\ shardLock = Unlocked
  /\ Cached(shardDir)
  /\ shardLock' = <<"caller", c>>
  /\ callers' = [callers EXCEPT ![c] = [pc |-> "send", dir |-> shardDir,
                                        h |-> shardStore[shardDir], err |-> ""]]
  /\ UNCHANGED <<shardStore, handles, tasks, colMetric, shardVars, gs, plVars, auxVars>>

\* The cleanup goroutine receives the reset signal in its select and starts a
\* new timer; LoadShard returns the cached shard and unlocks.
SendReset(c) ==
  /\ callers[c].pc = "send"
  /\ tasks[callers[c].h] = "select"
  /\ shardLock' = Unlocked
  /\ callers' = [callers EXCEPT ![c].pc = "fn"]
  /\ UNCHANGED <<shardStore, handles, tasks, colMetric, shardVars, gs, plVars, auxVars>>

\* LoadShard does not find the directory: it loads the collection, opens the
\* shard, registers it, starts the cleanup goroutine, unlocks and returns.
LoadFresh(c, shardDir) ==
  /\ callers[c].pc = "idle"
  /\ shardLock = Unlocked
  /\ ~Cached(shardDir)
  /\ \E found \in BOOLEAN :
       IF ~found
       THEN /\ callers' = [callers EXCEPT ![c] = [IdleCaller EXCEPT !.err = "collection"]]
            /\ UNCHANGED <<shardStore, handles, tasks>>
       ELSE \E h \in Handles :
              /\ handles[h].state = "none"
              /\ \A g \in Handles : g < h => handles[g].state # "none"
              /\ LET o == OpenShard(shardDir, colMetric[shardDir]) IN
                   IF o.err # ""
                   THEN /\ callers' = [callers EXCEPT ![c] = [IdleCaller EXCEPT !.err = "open"]]
                        /\ UNCHANGED <<shardStore, handles, tasks>>
                   ELSE /\ handles' = [handles EXCEPT ![h] = o.shard]
                        /\ shardStore' = [shardStore EXCEPT ![shardDir] = h]
                        /\ tasks' = [tasks EXCEPT ![h] = "select"]
                        /\ callers' = [callers EXCEPT ![c] = [pc |-> "fn", dir |-> shardDir,
                                                              h |-> h, err |-> ""]]
  /\ UNCHANGED <<shardLock, colMetric, shardVars, gs, plVars, auxVars>>

\* fn starts its transaction on the shard it was given; on a closed shard the
\* transaction fails (database not open) and so does fn.
BeginTx(c) ==
  /\ callers[c].pc = "fn"
  /\ callers' = [callers EXCEPT ![c] =
       IF handles[callers[c].h].state = "open"
       THEN [@ EXCEPT !.pc = "tx"]
       ELSE [IdleCaller EXCEPT !.err = "closed"]]
  /\ UNCHANGED <<shardStore, shardLock, handles, tasks, colMetric, shardVars, gs, plVars, auxVars>>

\* fn's transaction ends and DoWithShard returns.
EndTx(c) ==
  /\ callers[c].pc = "tx"
  /\ callers' = [callers EXCEPT ![c] = IdleCaller]
  /\ UNCHANGED <<shardStore, shardLock, handles, tasks, colMetric, shardVars, gs, plVars, auxVars>>

\* The timer of the cleanup goroutine fires: select takes the timeout case.
Timeout(h) ==
  /\ tasks[h] = "select"
  /\ tasks' = [tasks EXCEPT ![h] = "timeout"]
  /\ UNCHANGED <<shardStore, shardLock, handles, callers, colMetric, shardVars, gs, plVars, auxVars>>

\* The cleanup goroutine takes the manager's lock.
TaskLock(h) ==
  /\ tasks[h] = "timeout"
  /\ shardLock = Unlocked
  /\ shardLock' = <<"task", h>>
  /\ tasks' = [tasks EXCEPT ![h] = "locked"]
  /\ UNCHANGED <<shardStore, handles, callers, colMetric, shardVars, gs, plVars, auxVars>>

\* The cleanup goroutine closes the shard (Close waits for the open
\* transactions), removes it from the map unless Close failed, unlocks and
\* exits.
TaskClose(h) ==
  /\ tasks[h] = "locked"
  /\ \A c \in Callers : ~(callers[c].pc = "tx" /\ callers[c].h = h)
  /\ \E closed \in BOOLEAN :
       /\ handles' = [handles EXCEPT ![h].state = "closed"]
       /\ shardStore' = IF closed THEN [shardStore EXCEPT ![handles[h].dir] = NoHandle]
                        ELSE shardStore
  /\ shardLock' = Unlocked
  /\ tasks' = [tasks EXCEPT ![h] = "exited"]
  /\ UNCHANGED <<callers, colMetric, shardVars, gs, plVars, auxVars>>

MgrNext ==
  \/ \E c \in Callers, shardDir \in ShardDirs : LoadCached(c, shardDir)
  \/ \E c \in Callers : SendReset(c)
  \/ \E c \in Callers, shardDir \in ShardDirs : LoadFresh(c, shardDir)
  \/ \E c \in Callers : BeginTx(c)
  \/ \E c \in Callers : EndTx(c)
  \/ \E h \in Handles : Timeout(h)
  \/ \E h \in Handles : TaskLock(h)
  \/ \E h \in Handles : TaskClose(h)

MgrSpec == MgrInit /\ [][MgrNext]_vars

\* ---------------------------------------------------------------- placement
\* A key is a sequence of characters.  The characters of \w that occur are
\* WordChars; "-" and "/" are not of \w.
WordChars == {"U", "C", "P", "a", "b"}

\* Keys are composed of these parts, joined by "/".
Parts == {<<>>, <<"U">>, <<"C">>, <<"P">>, <<"a", "b">>, <<"a", "-">>}

ServerIds == 1..MaxServers

\* c.Servers: the servers that are members, in ascending order.
ServerLists ==
  {l \in UNION {[1..n -> ServerIds] : n \in 0..MaxServers} :
     \A i \in 1..Len(l) : \A j \in 1..Len(l) : i < j => l[i] < l[j]}

RECURSIVE WordRun(_, _)
\* \w+ from position i: the position after the longest run of \w characters.
WordRun(s, i) ==
  IF i <= Len(s) /\ s[i] \in WordChars THEN WordRun(s, i + 1) ELSE i

\* The literal lit stands in s at position i.
StartsAt(s, i, lit) ==
  /\ i + Len(lit) - 1 <= Len(s)
  /\ \A j \in 1..Len(lit) : s[i + j - 1] = lit[j]

\* ^U\/\w+\/C/$
UserCollectionsRegex(s) ==
  /\ StartsAt(s, 1, <<"U", "/">>)
  /\ LET j == WordRun(s, 3)
     IN /\ j > 3
        /\ StartsAt(s, j, <<"/", "C", "/">>)
        /\ Len(s) = j + 2

\* ^U\/\w+\/C\/\w+ with no $: a key that goes on after the collection matches.
CollectionKeyRegexUnanchored(s) ==
  /\ StartsAt(s, 1, <<"U", "/">>)
  /\ LET j == WordRun(s, 3)
     IN /\ j > 3
        /\ StartsAt(s, j, <<"/", "C", "/">>)
        /\ WordRun(s, j + 3) > j + 3

\* ^U\/\w+\/C\/\w+$
CollectionKeyRegex(s) ==
  /\ StartsAt(s, 1, <<"U", "/">>)
  /\ LET j == WordRun(s, 3)
     IN /\ j > 3
        /\ StartsAt(s, j, <<"/", "C", "/">>)
        /\ WordRun(s, j + 3) > j + 3
        /\ WordRun(s, j + 3) = Len(s) + 1

RECURSIVE Split(_, _)
\* strings.Split: the pieces of s between the separators.
Split(s, sep) ==
  IF \A i \in 1..Len(s) : s[i] # sep
  THEN <<s>>
  ELSE LET i == CHOOSE i \in 1..Len(s) :
                  s[i] = sep /\ \A j \in 1..(i - 1) : s[j] # sep
       IN <<SubSeq(s, 1, i - 1)>> \o Split(SubSeq(s, i + 1, Len(s)), sep)

\* The last piece of the key taken for the user id.
UserIdLastPart(parts) == parts[Len(parts)]

\* userId := parts[1] (counted from 0)
UserIdOf(parts) == parts[2]

CharCode(c) ==
  CASE c = "U" -> 1 [] c = "C" -> 2 [] c = "P" -> 3 [] c = "a" -> 4
    [] c = "b" -> 5 [] c = "-" -> 6 [] OTHER -> 7

RECURSIVE HashOf(_)
\* A deterministic hash of a string.
HashOf(s) ==
  IF s = <<>> THEN 7
  ELSE (HashOf(SubSeq(s, 1, Len(s) - 1)) * 31 + CharCode(s[Len(s)])) % 65536

\* hash(server (+) userId)
Weight(server, userId) == (HashOf(userId) * (2 * server + 1) + 1013 * server) % 251

\* server a ranks before server b for the user
RanksBefore(a, b, userId) ==
  \/ Weight(a, userId) > Weight(b, userId)
  \/ Weight(a, userId) = Weight(b, userId) /\ a <= b

RECURSIVE TopServers(_, _, _)
TopServers(userId, pool, n) ==
  IF n = 0 \/ pool = {} THEN <<>>
  ELSE LET best == CHOOSE a \in pool : \A b \in pool : RanksBefore(a, b, userId)
       IN <<best>> \o TopServers(userId, pool \ {best}, n - 1)

\* The top-replication servers ranked by hash(server (+) userId).
RendezvousHash(userId, srv, replication) ==
  TopServers(userId, {srv[i] : i \in 1..Len(srv)}, replication)

KeyPlacement(k, srv) ==
  IF UserCollectionsRegex(k) \/ CollectionKeyRegex(k)
  THEN LET parts == Split(k, "/")
           userId == UserIdOf(parts)
       IN [err |-> "", servers |-> RendezvousHash(userId, srv, GeneralReplication)]
  ELSE [err |-> "unknown key type", servers |-> <<>>]

\* A node with some server list; no key composed, no shard open.
PlInit ==
  /\ points = [id \in AllIds |-> NoPoint]
  /\ startId = NoStartId
  /\ pointCount = 0
  /\ isOpen = FALSE
  /\ searchSize = MaxSearchSize
  /\ degreeBound = MaxDegreeBound
  /\ last = [op |-> "none", err |-> "", ids |-> <<>>, dup |-> FALSE, found |-> <<>>]
  /\ deleted = {}
  /\ gs = NoGS
  /\ MgrIdle
  /\ key = <<>>
  /\ servers \in ServerLists
  /\ placement = NoResult
  /\ AuxIdle

\* A client starts a key with its first part.
NewKey(part) ==
  /\ key' = part
  /\ placement' = NoResult
  /\ UNCHANGED <<servers, shardVars, gs, mgrVars, auxVars>>

\* A client adds "/" and a part to the key.
ExtendKey(part) ==
  /\ Len(Split(key, "/")) < MaxParts
  /\ key' = key \o <<"/">> \o part
  /\ placement' = NoResult
  /\ UNCHANGED <<servers, shardVars, gs, mgrVars, auxVars>>

PlaceKey ==
  /\ ~placement.called
  /\ \E r \in {KeyPlacement(key, servers)} :
       placement' = [called |-> TRUE, key |-> key, err |-> r.err, servers |-> r.servers]
  /\ UNCHANGED <<key, servers, shardVars, gs, mgrVars, auxVars>>

PlNext ==
  \/ \E part \in Parts : NewKey(part)
  \/ \E part \in Parts : ExtendKey(part)
  \/ PlaceKey

PlSpec == PlInit /\ [][PlNext]_vars

\* -------------------------------------------------------------- properties
\* The ids stored in the points bucket.
Stored == {id \in AllIds : points[id].exists}

\* C1: after any committed operations every edge of every stored point leads
\* to a stored point other than the point itself.  (Stated for the shards
\* whose entry point is stored, so that a violation shows a surviving point
\* keeping an edge to a deleted user point.)
C1_EdgesLeadToStoredPoints ==
  startId \in Stored =>
  \A p \in Stored : \A i \in 1..Len(points[p].edges) :
    points[p].edges[i] \in Stored /\ points[p].edges[i] # p

\* C2: after any committed operations every stored point has at most
\* degreeBound edges.
C2_DegreeBounded ==
  \A p \in Stored : Len(points[p].edges) <= degreeBound

\* C3: the stored pointCount equals the number of stored points other than
\* the entry point.
C3_PointCountIsUserPoints ==
  startId # NoStartId => pointCount = Cardinality(Stored \ {startId})

\* C6: once NewShard has run, a point with id startId is stored, whatever
\* ids later operations are given.
C6_EntryPointStored ==
  startId # NoStartId => startId \in Stored

\* C4: a write operation that returns an error leaves the points bucket, the
\* edge lists, pointCount and startId as they were before the call.
C4_ErrorLeavesStoreUnchanged ==
  [][last'.err # "" => points' = points /\ pointCount' = pointCount /\ startId' = startId]_vars

\* A batch with a duplicate id has been refused by a shard that holds user
\* points, one of them stored by an earlier call.
C4_Witness ==
  /\ last.op = "InsertPoints"
  /\ last.err = "exists"
  /\ pointCount > 0
  /\ \E p \in Stored \ {startId} : Len(points[p].edges) > 0

\* C5: InsertPoints fails with 'point already exists' whenever an id of the
\* batch is stored already or occurs earlier in the batch, and then stores
\* nothing and leaves pointCount alone.
C5_DuplicateIdIsRefused ==
  [][last'.op = "InsertPoints" /\ last'.dup
         => last'.err = "exists" /\ points' = points /\ pointCount' = pointCount]_vars

\* C7: a SearchPoints result never holds the entry point, whatever the query,
\* k and the shard's contents.
C7_EntryPointNeverReturned ==
  last.op = "SearchPoints" => ~Contains(last.ids, startId)

\* A search has returned user points although the entry point was among the
\* first k elements of its search set.
C7_Witness ==
  /\ last.op = "SearchPoints"
  /\ last.err = ""
  /\ Len(last.ids) > 0
  /\ startId \in Stored
  /\ \E query \in Vectors, k \in 1..MaxK :
       LET g == greedySearch(NewPointCache(points), startId, query, k, searchSize) IN
         /\ g.err = ""
         /\ \E i \in 1..Min2(k, Len(g.searchSet.items)) : g.searchSet.items[i].id = startId
         /\ SearchPoints(points, startId, query, k, searchSize).ids = last.ids

\* C8: a search returns no id that a committed DeletePoints removed and no
\* later insert stored again.
C8_DeletedNeverReturned ==
  last.op = "SearchPoints" => SeqToSet(last.ids) \cap deleted = {}

\* A search returned a point from a shard that a DeletePoints removed
\* another point from.
C8_Witness ==
  /\ last.op = "SearchPoints"
  /\ last.err = ""
  /\ Len(last.ids) > 0
  /\ deleted \cap UserIds # {}

\* The ids that edges lead to from the ids of seen, in any number of steps.
RECURSIVE ReachFrom(_, _)
ReachFrom(bucket, seen) ==
  LET next == seen \cup UNION {SeqToSet(bucket[p].edges) : p \in {q \in seen : bucket[q].exists}}
  IN IF next = seen THEN seen ELSE ReachFrom(bucket, next)

\* Every stored point is reachable from the entry point sid.
AllReachable(bucket, sid) ==
  /\ sid \in AllIds
  /\ bucket[sid].exists
  /\ {id \in AllIds : bucket[id].exists} \subseteq ReachFrom(bucket, {sid})

\* InsertPoints([p]) has committed on a shard with degreeBound >= 1 in which
\* every user point was reachable, and no other stored point has p's vector.
C9_InsertedOne ==
  /\ last'.op = "InsertPoints"
  /\ last'.err = ""
  /\ Len(last'.ids) = 1
  /\ AllReachable(points, startId)
  /\ degreeBound >= 1
  /\ \A o \in AllIds \ {last'.ids[1]} :
       points'[o].exists => points'[o].vector # points'[last'.ids[1]].vector

\* Every point the inserted point has an edge to has an edge back to it.
C9_LinkedBack ==
  \A n \in SeqToSet(points'[last'.ids[1]].edges) : Contains(points'[n].edges, last'.ids[1])

\* What SearchPoints(p.vector, 1) returns right after the insert of p.
C9_SearchForInserted ==
  SearchPoints(points', startId, points'[last'.ids[1]].vector, 1, searchSize)

SearchNow(query, k) == SearchPoints(points, startId, query, k, searchSize)

NoRepeat(s) == \A i, j \in 1..Len(s) : i # j => s[i] # s[j]

\* C11: with searchSize >= k and every user point reachable from the entry
\* point, SearchPoints(q, k) with k > pointCount returns exactly pointCount
\* results, each a distinct user point.
C11_FewPointsAllReturned ==
  \A query \in Vectors, k \in 0..MaxK :
    (searchSize >= k /\ AllReachable(points, startId) /\ k > pointCount)
      => /\ Len(SearchNow(query, k).ids) = pointCount
         /\ NoRepeat(SearchNow(query, k).ids)
         /\ SeqToSet(SearchNow(query, k).ids) \subseteq Stored \ {startId}

\* The user points in the search set greedySearch(query, k) ends with, on a
\* shard NewShard has initialised.
UserPointsFound(query, k) ==
  LET g == greedySearch(NewPointCache(points), startId, query, k, searchSize) IN
  IF startId = NoStartId THEN {}
  ELSE IF g.err # "" THEN {}
  ELSE {g.searchSet.items[i].id : i \in 1..Len(g.searchSet.items)} \ {startId}

\* C12: whenever the search set holds at least k user points, SearchPoints(q, k)
\* returns exactly k points, also when the entry point is among the k closest
\* elements of the search set.
C12_ResultHasKPoints ==
  \A query \in Vectors, k \in 0..MaxK :
    (startId # NoStartId /\ searchSize >= k /\ Cardinality(UserPointsFound(query, k)) >= k)
      => Len(SearchNow(query, k).ids) = k

\* C15: UpdatePoints returns, without error, exactly the ids of the input
\* points that the shard holds, in input order; a skipped point is not created,
\* and a stored point whose id is not in the input keeps its vector.
C15_UpdateReturnsExistingIds ==
  [][last'.op = "UpdatePoints"
       => /\ last'.err = ""
          /\ last'.ids = last'.found
          /\ \A id \in AllIds : points'[id].exists = points[id].exists
          /\ \A id \in AllIds \ SeqToSet(last'.found) :
               points'[id].vector = points[id].vector]_vars

\* C13: NewShard fails and returns no shard handle when the collection's
\* distance metric is neither 'euclidean' nor 'cosine': no handle exists for
\* a collection with another metric.
C13_UnknownMetricIsRefused ==
  \A h \in Handles :
    handles[h].state # "none" => handles[h].metric \in {"euclidean", "cosine"}

\* The handles of a directory that are open, and its live cleanup goroutines.
OpenHandles(shardDir) ==
  {h \in Handles : handles[h].state = "open" /\ handles[h].dir = shardDir}

LiveTasks(shardDir) ==
  {h \in Handles : handles[h].dir = shardDir /\ tasks[h] \in {"select", "timeout", "locked"}}

\* C16: under any interleaving of LoadShard calls and cleanup goroutines, a
\* shard directory has at most one open handle and at most one live cleanup
\* goroutine, and the handle in the map is the open one.
C16_OneOpenHandlePerDir ==
  \A shardDir \in ShardDirs :
    /\ Cardinality(OpenHandles(shardDir)) <= 1
    /\ Cardinality(LiveTasks(shardDir)) <= 1
    /\ OpenHandles(shardDir) \subseteq {shardStore[shardDir]}

\* A directory has been evicted and loaded again while two callers were at
\* work: the first handle is closed, the second is open and in the map, a
\* caller runs its transaction on it and another is about to.
C16_Witness ==
  \E shardDir \in ShardDirs, h1, h2 \in Handles, c1, c2 \in Callers :
    /\ h1 # h2 /\ c1 # c2
    /\ handles[h1].dir = shardDir /\ handles[h1].state = "closed"
    /\ handles[h2].dir = shardDir /\ handles[h2].state = "open"
    /\ shardStore[shardDir] = h2
    /\ callers[c1].pc = "tx" /\ callers[c1].h = h2
    /\ callers[c2].pc = "fn" /\ callers[c2].h = h2

\* C17: a handle handed out for running fn is not closed by the cleanup
\* goroutine before fn has run to completion, also not between LoadShard's
\* unlock and the start of fn's transaction.
C17_HandleOpenWhileFnRuns ==
  \A c \in Callers :
    callers[c].pc \in {"fn", "tx"} => handles[callers[c].h].state = "open"

\* C18: a cleanup goroutine whose timer has fired goes on to close the shard,
\* remove it from the map and exit: it is never left waiting for the
\* manager's lock while the holder of the lock waits to hand it a reset.
C18_TimedOutTaskCloses ==
  \A h \in Handles :
    tasks[h] = "timeout"
      => ~\E c \in Callers : callers[c].pc = "send" /\ callers[c].h = h

\* C14: in every committed state each point in the points bucket has a
\* vector of length vectorSize, because InsertPoints and UpdatePoints refuse
\* an input point whose vector has another length.
C14_StoredVectorsHaveVectorSize ==
  \A id \in Stored : Len(points[id].vector) = VectorSize

\* The non-empty parts made of \w characters: the user and collection ids.
Words == {p \in Parts : p # <<>> /\ \A i \in 1..Len(p) : p[i] \in WordChars}

\* U/<user>/C/<col>; with no <col> it is the user's listing key U/<user>/C/.
CollectionKey(user, col) == <<"U", "/">> \o user \o <<"/", "C", "/">> \o col

PointKeys ==
  {CollectionKey(user, col) \o <<"/", "P", "/">> \o pt : user \in Words, col \in Words, pt \in Words}

Outcomes == {"ok", "stale", "timeout", "other"}

\* The keys written: a user's listing key, a collection key and a point key.
WriteKeys ==
  {CollectionKey(<<"a", "b">>, <<>>), CollectionKey(<<"a", "b">>, <<"P">>),
   CollectionKey(<<"a", "b">>, <<"P">>) \o <<"/", "P", "/", "P">>}

WrInit ==
  /\ points = [id \in AllIds |-> NoPoint]
  /\ startId = NoStartId
  /\ pointCount = 0
  /\ isOpen = FALSE
  /\ searchSize = MaxSearchSize
  /\ degreeBound = MaxDegreeBound
  /\ last = [op |-> "none", err |-> "", ids |-> <<>>, dup |-> FALSE, found |-> <<>>]
  /\ deleted = {}
  /\ gs = NoGS
  /\ MgrIdle
  /\ key \in WriteKeys
  /\ servers \in ServerLists
  /\ placement = NoResult
  /\ write = NoWrite
  /\ txn = NoTxn
  /\ idc = NoIdc
  /\ dset = NoDset
  /\ prune = NoPrune
  /\ RestIdle

\* The replies received so far (otherCount counts the replies of the default
\* case, which the code only logs).
Received(w) == w.successCount + w.conflictCount + w.timeoutCount + w.otherCount

\* targetServers, err := c.KeyPlacement(key); one RPCWrite per target server.
ClusterWrite ==
  /\ write.pc = "idle"
  /\ \E r \in {KeyPlacement(key, servers)} :
       write' = IF r.err # ""
                THEN [write EXCEPT !.pc = "done", !.ret = "could not get target servers"]
                ELSE [write EXCEPT !.pc = "collect", !.targets = r.servers]
  /\ UNCHANGED <<shardVars, gs, mgrVars, plVars, txn, idc, dset, prune, restVars>>

\* err := <-results
ReceiveResult(err) ==
  /\ write.pc = "collect"
  /\ Received(write) < Len(write.targets)
  /\ write' = CASE err = "ok" -> [write EXCEPT !.successCount = @ + 1]
                [] err = "stale" -> [write EXCEPT !.conflictCount = @ + 1]
                [] err = "timeout" -> [write EXCEPT !.timeoutCount = @ + 1]
                [] OTHER -> [write EXCEPT !.otherCount = @ + 1]
  /\ UNCHANGED <<shardVars, gs, mgrVars, plVars, txn, idc, dset, prune, restVars>>

\* The final switch of ClusterWrite.
WriteResult(w) ==
  CASE w.conflictCount > 0 -> "ErrConflict"
    [] w.conflictCount = 0 /\ w.timeoutCount = Len(w.targets) -> "ErrTimeout"
    [] w.conflictCount = 0 /\ w.timeoutCount # Len(w.targets) /\ w.successCount = 0 -> "ErrNoSuccess"
    [] w.conflictCount = 0 /\ w.timeoutCount # Len(w.targets) /\ w.successCount # 0
         /\ w.successCount = Len(w.targets) -> ""
    [] OTHER -> "ErrPartialSuccess"

WriteReturn ==
  /\ write.pc = "collect"
  /\ Received(write) = Len(write.targets)
  /\ write' = [write EXCEPT !.pc = "done", !.ret = WriteResult(write)]
  /\ UNCHANGED <<shardVars, gs, mgrVars, plVars, txn, idc, dset, prune, restVars>>

WrNext ==
  \/ ClusterWrite
  \/ \E err \in Outcomes : ReceiveResult(err)
  \/ WriteReturn

WrSpec == WrInit /\ [][WrNext]_vars

StoreSharedWithWriter(own, writers) ==
  [id \in AllIds |-> IF writers[id].cached THEN writers[id] ELSE own[id]]

\* The store of a read transaction's cache: each transaction constructs its
\* own.
StoreOfReader(own, writers) == own

TxInit ==
  /\ points = [id \in AllIds |-> NoPoint]
  /\ startId = NoStartId
  /\ pointCount = 0
  /\ isOpen = TRUE
  /\ searchSize = MaxSearchSize
  /\ degreeBound = MaxDegreeBound
  /\ last = [op |-> "none", err |-> "", ids |-> <<>>, dup |-> FALSE, found |-> <<>>]
  /\ deleted = {}
  /\ gs = NoGS
  /\ MgrIdle
  /\ NoPlacement
  /\ write = NoWrite
  /\ txn = NoTxn
  /\ idc = NoIdc
  /\ dset = NoDset
  /\ prune = NoPrune
  /\ RestIdle

\* s.db.Update(func(tx) ...): pc := NewPointCache(b)
BeginWrite ==
  /\ txn.wpc = "idle"
  /\ txn' = [txn EXCEPT !.wpc = "open", !.wcache = NewPointCache(points).cache]
  /\ UNCHANGED <<shardVars, gs, mgrVars, plVars, write, idc, dset, prune, restVars>>

\* pc.SetPoint in the write transaction
WriteSetPoint(id, vector) ==
  /\ txn.wpc = "open"
  /\ txn' = [txn EXCEPT !.wcache =
               SetPoint([cache |-> txn.wcache, bucket |-> points, err |-> ""],
                        [id |-> id, vector |-> vector, edges |-> <<>>]).cache]
  /\ UNCHANGED <<shardVars, gs, mgrVars, plVars, write, idc, dset, prune, restVars>>

\* pc.Flush() and the commit of the transaction
CommitWrite ==
  /\ txn.wpc = "open"
  /\ \E bucket \in {Flush([cache |-> txn.wcache, bucket |-> points, err |-> ""])} :
       /\ points' = bucket
       /\ txn' = [txn EXCEPT !.wpc = "idle", !.wcache = NoTxn.wcache,
                             !.everCommitted = @ \cup {<<id, bucket[id].vector>> :
                                                         id \in {i \in AllIds : bucket[i].exists}}]
  /\ UNCHANGED <<startId, pointCount, isOpen, searchSize, degreeBound, last, deleted,
                 gs, mgrVars, plVars, write, idc, dset, prune, restVars>>

\* The closure returns an error: the transaction is rolled back and its cache
\* is dropped.
AbortWrite ==
  /\ txn.wpc = "open"
  /\ txn' = [txn EXCEPT !.wpc = "idle", !.wcache = NoTxn.wcache]
  /\ UNCHANGED <<shardVars, gs, mgrVars, plVars, write, idc, dset, prune, restVars>>

\* s.db.View(func(tx) ...): pc := NewPointCache(b)
BeginRead ==
  /\ txn.rpc = "idle"
  /\ txn' = [txn EXCEPT !.rpc = "open", !.rsnap = points,
                        !.rcache = NewPointCache(points).cache, !.obtained = <<>>]
  /\ UNCHANGED <<shardVars, gs, mgrVars, plVars, write, idc, dset, prune, restVars>>

\* pc.GetPoint in the read transaction: the point of the store, else the point
\* of the bucket, which is put into the store.
ReadGetPoint(id) ==
  /\ txn.rpc = "open"
  /\ \E w \in {[cache |-> StoreOfReader(txn.rcache, txn.wcache), bucket |-> txn.rsnap, err |-> ""]} :
       /\ HasPoint(w, id)
       /\ txn' = [txn EXCEPT !.obtained = <<id, GetPoint(w, id).vector>>,
                             !.rcache[id] = GetPoint(w, id)]
  /\ UNCHANGED <<shardVars, gs, mgrVars, plVars, write, idc, dset, prune, restVars>>

EndRead ==
  /\ txn.rpc = "open"
  /\ txn' = [txn EXCEPT !.rpc = "idle", !.rcache = NoTxn.rcache, !.rsnap = NoTxn.rsnap]
  /\ UNCHANGED <<shardVars, gs, mgrVars, plVars, write, idc, dset, prune, restVars>>

TxNext ==
  \/ BeginWrite
  \/ \E id \in UserIds, vector \in Vectors : WriteSetPoint(id, vector)
  \/ CommitWrite
  \/ AbortWrite
  \/ BeginRead
  \/ \E id \in UserIds : ReadGetPoint(id)
  \/ EndRead

TxSpec == TxInit /\ [][TxNext]_vars

BlankBucket == [freeIds |-> <<>>, nextFreeId |-> 1]

NoIds == [held |-> {}, ever |-> {}, free |-> {}]

IdcInit ==
  /\ points = [id \in AllIds |-> NoPoint]
  /\ startId = NoStartId
  /\ pointCount = 0
  /\ isOpen = FALSE
  /\ searchSize = MaxSearchSize
  /\ degreeBound = MaxDegreeBound
  /\ last = [op |-> "none", err |-> "", ids |-> <<>>, dup |-> FALSE, found |-> <<>>]
  /\ deleted = {}
  /\ gs = NoGS
  /\ MgrIdle
  /\ NoPlacement
  /\ write = NoWrite
  /\ txn = NoTxn
  /\ idc = [open |-> FALSE, reopened |-> FALSE, flushed |-> TRUE, freedEver |-> FALSE,
            freeIds |-> <<>>, nextFreeId |-> 1, bucket |-> BlankBucket,
            held |-> {}, ever |-> {}, free |-> {}, last |-> 0, pre |-> NoIds]
  /\ dset = NoDset
  /\ prune = NoPrune
  /\ RestIdle

\* shard.NewIdCounter(b, "freeIds", "nextFreeId") inside db.Write
NewIdCounter ==
  /\ ~idc.open
  /\ idc' = [idc EXCEPT !.open = TRUE, !.reopened = idc.ever # {},
                        !.freeIds = idc.bucket.freeIds,
                        !.nextFreeId = idc.bucket.nextFreeId]
  /\ UNCHANGED <<shardVars, gs, mgrVars, plVars, write, txn, dset, prune, restVars>>

\* A NextId that never looks at the freed ids.
NextIdNeverIssued(c) ==
  [id |-> c.nextFreeId, freeIds |-> c.freeIds, nextFreeId |-> c.nextFreeId + 1]

\* counter.NextId(): a freed id if there is one, else the next id never
\* issued.
NextIdOf(c) ==
  IF c.freeIds # <<>>
  THEN [id |-> c.freeIds[Len(c.freeIds)],
        freeIds |-> SubSeq(c.freeIds, 1, Len(c.freeIds) - 1),
        nextFreeId |-> c.nextFreeId]
  ELSE [id |-> c.nextFreeId, freeIds |-> c.freeIds, nextFreeId |-> c.nextFreeId + 1]

NextId ==
  /\ idc.open
  /\ \E r \in {NextIdOf(idc)} :
       /\ r.id <= MaxNextId
       /\ idc' = [idc EXCEPT !.freeIds = r.freeIds, !.nextFreeId = r.nextFreeId,
                             !.flushed = FALSE, !.last = r.id,
                             !.pre = [held |-> idc.held, ever |-> idc.ever, free |-> idc.free],
                             !.held = @ \cup {r.id}, !.ever = @ \cup {r.id},
                             !.free = @ \ {r.id}]
  /\ UNCHANGED <<shardVars, gs, mgrVars, plVars, write, txn, dset, prune, restVars>>

\* counter.FreeId(id) for an id that was issued and not freed
FreeId(id) ==
  /\ idc.open
  /\ id \in idc.held
  /\ idc' = [idc EXCEPT !.freeIds = Append(@, id), !.flushed = FALSE, !.freedEver = TRUE,
                        !.held = @ \ {id}, !.free = @ \cup {id}]
  /\ UNCHANGED <<shardVars, gs, mgrVars, plVars, write, txn, dset, prune, restVars>>

\* A Flush that writes the freed ids and not the next id.
FlushFreeIdsOnly(c) == [freeIds |-> c.freeIds, nextFreeId |-> c.bucket.nextFreeId]

\* What counter.Flush() writes to the bucket.
FlushCounter(c) == [freeIds |-> c.freeIds, nextFreeId |-> c.nextFreeId]

FlushIds ==
  /\ idc.open
  /\ ~idc.flushed
  /\ idc' = [idc EXCEPT !.bucket = FlushCounter(idc), !.flushed = TRUE]
  /\ UNCHANGED <<shardVars, gs, mgrVars, plVars, write, txn, dset, prune, restVars>>

\* The closure of db.Write returns after a Flush and the transaction commits.
CloseCounter ==
  /\ idc.open
  /\ idc.flushed
  /\ idc' = [idc EXCEPT !.open = FALSE]
  /\ UNCHANGED <<shardVars, gs, mgrVars, plVars, write, txn, dset, prune, restVars>>

IdcNext ==
  \/ NewIdCounter
  \/ NextId
  \/ \E id \in 1..MaxNextId : FreeId(id)
  \/ FlushIds
  \/ CloseCounter

IdcSpec == IdcInit /\ [][IdcNext]_vars

MgrFairSpec ==
  /\ MgrInit
  /\ [][MgrNext]_vars
  /\ \A c \in Callers : WF_vars(SendReset(c)) /\ WF_vars(BeginTx(c)) /\ WF_vars(EndTx(c))
  /\ \A h \in Handles : WF_vars(TaskLock(h)) /\ WF_vars(TaskClose(h))

\* C25: a LoadShard that sends the reset signal while it holds the manager's
\* lock eventually gets past the send and returns, in every interleaving with
\* the cleanup goroutine of the shard.
C25_LoadShardReturns ==
  \A c \in Callers : (callers[c].pc = "send") ~> (callers[c].pc # "send")

\* ----------------------------------------------------- robustPrune, alone
\* robustPrune applied to a point, its current edges and a candidate set,
\* for each metric and degree bound.  The vectors are the four unit vectors
\* along the axes of the plane.
PruneVectors == {<<1, 0>>, <<0, 1>>, <<0 - 1, 0>>, <<0, 0 - 1>>}

PruneMetrics == {"euclidean", "cosine"}

\* The sequences of distinct ids other than id.
OtherIds(id) ==
  {q \in UNION {[1..n -> AllIds \ {id}] : n \in 0..MaxId} :
     \A i \in 1..Len(q) : \A j \in 1..Len(q) : i # j => q[i] # q[j]}

PrInit ==
  /\ points = [id \in AllIds |-> NoPoint]
  /\ startId = NoStartId
  /\ pointCount = 0
  /\ isOpen = FALSE
  /\ searchSize = MaxSearchSize
  /\ degreeBound = MaxDegreeBound
  /\ last = [op |-> "none", err |-> "", ids |-> <<>>, dup |-> FALSE, found |-> <<>>]
  /\ deleted = {}
  /\ gs = NoGS
  /\ MgrIdle
  /\ NoPlacement
  /\ write = NoWrite
  /\ txn = NoTxn
  /\ idc = NoIdc
  /\ dset = NoDset
  /\ RestIdle
  /\ \E metric \in PruneMetrics, R \in DegreeBounds, id \in AllIds,
        vecs \in [AllIds -> PruneVectors] :
       \E edges \in OtherIds(id), cands \in OtherIds(id) \ {<<>>} :
         prune = [pc |-> "input", metric |-> metric, R |-> R, id |-> id, vecs |-> vecs,
                  edges |-> edges, cands |-> cands, out |-> <<>>, err |-> ""]

\* The points bucket the call works on.
PruneBucket(p) ==
  [i \in AllIds |-> [exists |-> TRUE, vector |-> p.vecs[i],
                     edges |-> IF i = p.id THEN p.edges ELSE <<>>]]

\* The name of the distance function NewShard selects for the metric.
DistFnOf(metric) == OpenShard(1, metric).shard.distFn

\* candidateSet := NewDistSet(point.Vector, ..., s.distFn); AddPoint; Sort;
\* s.robustPrune(point, candidateSet, alpha, degreeBound)
ApplyRobustPrune ==
  /\ prune.pc = "input"
  /\ \E w \in {NewPointCache(PruneBucket(prune))} :
       \E r \in {robustPrune(w, prune.id,
                    Sort(AddPoint(NewDistSetWith(prune.vecs[prune.id], DistFnOf(prune.metric)),
                                  [i \in 1..Len(prune.cands) |->
                                     [id |-> prune.cands[i], vector |-> prune.vecs[prune.cands[i]]]])),
                    prune.R)} :
         prune' = [prune EXCEPT !.pc = "done", !.out = GetPoint(r, prune.id).edges, !.err = r.err]
  /\ UNCHANGED <<shardVars, gs, mgrVars, plVars, write, txn, idc, dset, restVars>>

PrNext == ApplyRobustPrune

PrSpec == PrInit /\ [][PrNext]_vars

\* C26: the edge list robustPrune assigns has at most R elements, for every
\* candidate set and every degree bound R.
C26_PrunedEdgesWithinBound ==
  (prune.pc = "done" /\ prune.err = "") => Len(prune.out) <= prune.R

\* C27: in the edge list robustPrune assigns, an edge x chosen after an edge c
\* is not dominated by c: alpha * d(c, x) > d(point, x), d being the distance
\* of the collection's metric.
C27_NoEdgeDominatedByEarlier ==
  (prune.pc = "done" /\ prune.err = "") =>
    \A i \in 1..Len(prune.out) : \A j \in 1..Len(prune.out) :
      i < j =>
        Alpha[1] * DistFn(DistFnOf(prune.metric), prune.vecs[prune.out[i]], prune.vecs[prune.out[j]])
          > Alpha[2] * DistFn(DistFnOf(prune.metric), prune.vecs[prune.id], prune.vecs[prune.out[j]])

\* C28: after insertSinglePoint(new) has returned, every point named in
\* new's edges has new among its own edges, also a neighbour that was at the
\* degree bound and was pruned again.  (Stated for the point a committed
\* InsertPoints inserted last: nothing runs between its insertSinglePoint and
\* the commit but the Flush.)
C28_NewEdgesAreOnBothEndpoints ==
  (last.op = "InsertPoints" /\ last.err = "" /\ last.ids # <<>>) =>
    \A i \in 1..Len(points[last.ids[Len(last.ids)]].edges) :
      LET n == points[last.ids[Len(last.ids)]].edges[i]
      IN \E j \in 1..Len(points[n].edges) : points[n].edges[j] = last.ids[Len(last.ids)]

\* The ids a step removes from the points bucket: the deleteSet of a
\* committed DeletePoints, as far as it names stored points.
Removed == {id \in AllIds : points[id].exists /\ ~points'[id].exists}

\* C29: after pruneDeleteNeighbour(id, deleteSet) has returned, the edge list
\* of id names no id of deleteSet.  (Stated for the points a committed
\* DeletePoints prunes: each is pruned once, and nothing else writes its
\* edges before the commit.)
C29_PrunedEdgesAvoidDeleteSet ==
  [][(Removed # {} /\ last'.err = "") =>
       \A id \in ToPrune(NewPointCache(points), Removed) :
         \A i \in 1..Len(points'[id].edges) : points'[id].edges[i] \notin Removed]_vars

\* ------------------------------------------------------- the DistSet, alone
\* A DistSet for the query <<0>> under any sequence of AddPoint, Sort, Remove,
\* KeepFirstK and Pop.  gone holds the ids that were removed, truncated or
\* popped and not added again; last and pre record the last operation, what
\* Pop returned and the set before it.
QueryVector == [i \in 1..VectorSize |-> 0]

NoElem == [id |-> StartId, vector |-> <<>>, distance |-> 0, visited |-> FALSE]

DsInit ==
  /\ points = [id \in AllIds |-> NoPoint]
  /\ startId = NoStartId
  /\ pointCount = 0
  /\ isOpen = FALSE
  /\ searchSize = MaxSearchSize
  /\ degreeBound = MaxDegreeBound
  /\ last = [op |-> "none", err |-> "", ids |-> <<>>, dup |-> FALSE, found |-> <<>>]
  /\ deleted = {}
  /\ gs = NoGS
  /\ MgrIdle
  /\ NoPlacement
  /\ write = NoWrite
  /\ txn = NoTxn
  /\ idc = NoIdc
  /\ prune = NoPrune
  /\ RestIdle
  /\ dset = [ds |-> NewDistSet(QueryVector), gone |-> {}, op |-> "none", elem |-> NoElem,
             pre |-> NewDistSet(QueryVector), pregone |-> {}]

DsAddPoint(id, vector) ==
  /\ Len(dset.ds.items) < MaxItems
  /\ dset' = [dset EXCEPT !.ds = AddPoint(@, <<[id |-> id, vector |-> vector]>>),
                          !.gone = @ \ {id}, !.op = "add", !.elem = NoElem,
                          !.pre = dset.ds, !.pregone = dset.gone]
  /\ UNCHANGED <<shardVars, gs, mgrVars, plVars, write, txn, idc, prune, restVars>>

\* Sort: any arrangement of the items in ascending distance, as slices.SortFunc
\* does not promise more.
DsSort ==
  /\ \E sorted \in SortOutcomes(dset.ds.items) :
       dset' = [dset EXCEPT !.ds = [@ EXCEPT !.items = sorted], !.op = "sort", !.elem = NoElem,
                            !.pre = dset.ds, !.pregone = dset.gone]
  /\ UNCHANGED <<shardVars, gs, mgrVars, plVars, write, txn, idc, prune, restVars>>

DsRemove(id) ==
  /\ dset' = [dset EXCEPT !.ds = Remove(@, id),
                          !.gone = IF id \in dset.ds.set THEN @ \cup {id} ELSE @,
                          !.op = "remove", !.elem = NoElem,
                          !.pre = dset.ds, !.pregone = dset.gone]
  /\ UNCHANGED <<shardVars, gs, mgrVars, plVars, write, txn, idc, prune, restVars>>

DsKeepFirstK(k) ==
  /\ \E kept \in {KeepFirstK(dset.ds, k)} :
       dset' = [dset EXCEPT !.ds = kept, !.gone = @ \cup (dset.ds.set \ kept.set),
                            !.op = "keepFirstK", !.elem = NoElem,
                            !.pre = dset.ds, !.pregone = dset.gone]
  /\ UNCHANGED <<shardVars, gs, mgrVars, plVars, write, txn, idc, prune, restVars>>

\* Pop on a set with Len() > 0, as robustPrune calls it.
DsPop ==
  /\ DistSetLen(dset.ds) > 0
  /\ \E p \in {Pop(dset.ds)} :
       dset' = [dset EXCEPT !.ds = p.ds, !.gone = @ \cup (dset.ds.set \ p.ds.set),
                            !.op = IF p.ok THEN "pop" ELSE "popNothing", !.elem = p.elem,
                            !.pre = dset.ds, !.pregone = dset.gone]
  /\ UNCHANGED <<shardVars, gs, mgrVars, plVars, write, txn, idc, prune, restVars>>

DsNext ==
  \/ \E id \in AllIds, vector \in Vectors : DsAddPoint(id, vector)
  \/ DsSort
  \/ \E id \in AllIds : DsRemove(id)
  \/ \E k \in 0..MaxK : DsKeepFirstK(k)
  \/ DsPop

DsSpec == DsInit /\ [][DsNext]_vars

\* The members of the array: the indices whose id is in the set.
MemberIndices(ds) == {i \in 1..Len(ds.items) : ds.items[i].id \in ds.set}

\* C30: a Pop on a DistSet with Len() > 0 returns the first element of the
\* array whose id is a member, takes that id and no other out of the set, and
\* does not return an id that was removed, truncated or popped before and not
\* added again.
C30_PopReturnsFirstMember ==
  dset.op \in {"pop", "popNothing"} =>
    /\ dset.op = "pop"
    /\ MemberIndices(dset.pre) # {}
    /\ \E i \in MemberIndices(dset.pre) :
         /\ \A j \in MemberIndices(dset.pre) : i <= j
         /\ dset.elem = dset.pre.items[i]
    /\ dset.ds.set = dset.pre.set \ {dset.elem.id}
    /\ Cardinality(dset.ds.set) = Cardinality(dset.pre.set) - 1
    /\ dset.elem.id \notin dset.pregone

\* A Pop passed over a first array element whose id had been removed.
C30_Witness ==
  /\ dset.op = "pop"
  /\ Len(dset.pre.items) >= 2
  /\ dset.pre.items[1].id \in dset.pregone
  /\ dset.elem.id # dset.pre.items[1].id

NodeIds == 1..MaxId

NoPointer == 0

NewCachePoint(nodeId, sp, dirty) ==
  [nodeId |-> nodeId, vector |-> sp.vector, edges |-> sp.edges,
   isDirty |-> dirty, isEdgeDirty |-> FALSE, isDeleted |-> FALSE]

PcState(heap, pts, bucket) == [heap |-> heap, points |-> pts, bucket |-> bucket]

PcInit ==
  /\ points = [id \in AllIds |-> NoPoint]
  /\ startId = NoStartId
  /\ pointCount = 0
  /\ isOpen = FALSE
  /\ searchSize = MaxSearchSize
  /\ degreeBound = MaxDegreeBound
  /\ last = [op |-> "none", err |-> "", ids |-> <<>>, dup |-> FALSE, found |-> <<>>]
  /\ deleted = {}
  /\ gs = NoGS
  /\ MgrIdle
  /\ NoPlacement
  /\ write = NoWrite
  /\ txn = NoTxn
  /\ idc = NoIdc
  /\ dset = NoDset
  /\ prune = NoPrune
  /\ nbr = NoNbr
  /\ colls = NoColls
  /\ scan = NoScan
  /\ \E stored \in SUBSET NodeIds :
       store = [heap |-> <<>>, points |-> [n \in NodeIds |-> NoPointer],
                bucket |-> [n \in NodeIds |->
                              IF n \in stored
                              THEN [exists |-> TRUE, vector |-> QueryVector, edges |-> <<>>]
                              ELSE NoPoint],
                op |-> "none", err |-> "", ret |-> NoPointer,
                pre |-> PcState(<<>>, [n \in NodeIds |-> NoPointer],
                                [n \in NodeIds |-> NoPoint])]

PcPre == PcState(store.heap, store.points, store.bucket)

\* A call that returns an error and leaves the store as it is.
PcFail(op, err) ==
  store' = [store EXCEPT !.op = op, !.err = err, !.ret = NoPointer, !.pre = PcPre]

\* GetPoint: the CachePoint of the map, else a new one read from the bucket.
PcGetPoint(nodeId) ==
  /\ IF store.points[nodeId] # NoPointer
     THEN store' = [store EXCEPT !.op = "GetPoint", !.err = "", !.ret = store.points[nodeId],
                                 !.pre = PcPre]
     ELSE IF ~store.bucket[nodeId].exists
     THEN PcFail("GetPoint", "notfound")
     ELSE /\ Len(store.heap) < MaxObjects
          /\ store' = [store EXCEPT
                         !.heap = Append(@, NewCachePoint(nodeId, store.bucket[nodeId], FALSE)),
                         !.points[nodeId] = Len(store.heap) + 1,
                         !.op = "GetPoint", !.err = "", !.ret = Len(store.heap) + 1,
                         !.pre = PcPre]
  /\ UNCHANGED <<shardVars, gs, mgrVars, plVars, write, txn, idc, dset, prune, nbr, colls, scan>>

\* GetPointByUUID of a point the bucket holds: a new CachePoint read from the
\* bucket is put in the map under the point's node id.
GetPointByUUID(st, nodeId) ==
  [st EXCEPT !.heap = Append(@, NewCachePoint(nodeId, st.bucket[nodeId], FALSE)),
             !.points[nodeId] = Len(st.heap) + 1,
             !.op = "GetPointByUUID", !.err = "", !.ret = Len(st.heap) + 1]

PcGetPointByUUID(nodeId) ==
  /\ IF ~store.bucket[nodeId].exists
     THEN PcFail("GetPointByUUID", "notfound")
     ELSE \E st \in {GetPointByUUID(store, nodeId)} :
            /\ Len(st.heap) <= MaxObjects
            /\ store' = [st EXCEPT !.pre = PcPre]
  /\ UNCHANGED <<shardVars, gs, mgrVars, plVars, write, txn, idc, dset, prune, nbr, colls, scan>>

\* SetPoint: a new CachePoint, dirty, is put in the map; node id 0 is an error.
PcSetPoint(nodeId, vector) ==
  /\ IF nodeId = 0
     THEN PcFail("SetPoint", "node id cannot be 0")
     ELSE /\ Len(store.heap) < MaxObjects
          /\ store' = [store EXCEPT
                         !.heap = Append(@, NewCachePoint(nodeId, [vector |-> vector, edges |-> <<>>], TRUE)),
                         !.points[nodeId] = Len(store.heap) + 1,
                         !.op = "SetPoint", !.err = "", !.ret = Len(store.heap) + 1,
                         !.pre = PcPre]
  /\ UNCHANGED <<shardVars, gs, mgrVars, plVars, write, txn, idc, dset, prune, nbr, colls, scan>>

\* A caller marks a CachePoint it holds as deleted.
PcMarkDeleted(ptr) ==
  /\ ~store.heap[ptr].isDeleted
  /\ store' = [store EXCEPT !.heap[ptr].isDeleted = TRUE,
                            !.op = "delete", !.err = "", !.ret = ptr, !.pre = PcPre]
  /\ UNCHANGED <<shardVars, gs, mgrVars, plVars, write, txn, idc, dset, prune, nbr, colls, scan>>

\* A caller adds a neighbour to a CachePoint it holds: the edges are dirty.
PcAddNeighbour(ptr, q) ==
  /\ store.heap[ptr].edges = <<>>
  /\ store' = [store EXCEPT !.heap[ptr].edges = <<q>>, !.heap[ptr].isEdgeDirty = TRUE,
                            !.op = "addNeighbour", !.err = "", !.ret = ptr, !.pre = PcPre]
  /\ UNCHANGED <<shardVars, gs, mgrVars, plVars, write, txn, idc, dset, prune, nbr, colls, scan>>

\* A Flush that clears isDirty only, on a point stored in full.
FlushedCachePointEdgeDirty(cp) ==
  IF cp.isDirty THEN [cp EXCEPT !.isDirty = FALSE] ELSE [cp EXCEPT !.isEdgeDirty = FALSE]

\* Flush, on a CachePoint that stays in the map: the flags are cleared.
FlushedCachePoint(cp) ==
  IF cp.isDirty THEN [cp EXCEPT !.isDirty = FALSE, !.isEdgeDirty = FALSE]
  ELSE [cp EXCEPT !.isEdgeDirty = FALSE]

\* The CachePoint of the map for a node, as FlushPoint takes it.
MapEntry(st, n) ==
  IF st.points[n] = NoPointer THEN NoCachePoint
  ELSE [cached |-> TRUE, vector |-> st.heap[st.points[n]].vector,
        edges |-> st.heap[st.points[n]].edges, isDirty |-> st.heap[st.points[n]].isDirty,
        isEdgeDirty |-> st.heap[st.points[n]].isEdgeDirty,
        isDeleted |-> st.heap[st.points[n]].isDeleted]

\* Flush walks the map: a deleted point leaves bucket and map, the others are
\* stored by FlushPoint and lose their flags.
PcFlush ==
  /\ store' = [store EXCEPT
       !.bucket = [n \in NodeIds |-> FlushPoint(MapEntry(store, n), store.bucket[n])],
       !.points = [n \in NodeIds |->
                     IF store.points[n] # NoPointer /\ store.heap[store.points[n]].isDeleted
                     THEN NoPointer ELSE store.points[n]],
       !.heap = [i \in 1..Len(store.heap) |->
                   IF store.points[store.heap[i].nodeId] = i /\ ~store.heap[i].isDeleted
                   THEN FlushedCachePoint(store.heap[i]) ELSE store.heap[i]],
       !.op = "Flush", !.err = "", !.ret = NoPointer, !.pre = PcPre]
  /\ UNCHANGED <<shardVars, gs, mgrVars, plVars, write, txn, idc, dset, prune, nbr, colls, scan>>

PcNext ==
  \/ \E nodeId \in NodeIds : PcGetPoint(nodeId)
  \/ \E nodeId \in NodeIds : PcGetPointByUUID(nodeId)
  \/ \E nodeId \in 0..MaxId, vector \in Vectors : PcSetPoint(nodeId, vector)
  \/ \E ptr \in 1..Len(store.heap) : PcMarkDeleted(ptr)
  \/ \E ptr \in 1..Len(store.heap), q \in NodeIds : PcAddNeighbour(ptr, q)
  \/ PcFlush

PcSpec == PcInit /\ [][PcNext]_vars

\* The CachePoint the map held for node n before the last call.
PreEntry(n) == store.pre.heap[store.pre.points[n]]

\* C32: after a Flush without error, a CachePoint of the map that was marked
\* isDeleted is in neither bucket nor map, dirty or not; one that was isDirty
\* is stored in full; one that was only isEdgeDirty has its edges stored and
\* its vector as the bucket had it; and no CachePoint of the map is left with
\* isDirty or isEdgeDirty set.
C32_FlushStoresEveryMarkedPoint ==
  (store.op = "Flush" /\ store.err = "") =>
    /\ \A n \in NodeIds : store.pre.points[n] # NoPointer =>
         IF PreEntry(n).isDeleted
         THEN ~store.bucket[n].exists /\ store.points[n] = NoPointer
         ELSE IF PreEntry(n).isDirty
         THEN store.bucket[n] = [exists |-> TRUE, vector |-> PreEntry(n).vector,
                                 edges |-> PreEntry(n).edges]
         ELSE IF PreEntry(n).isEdgeDirty
         THEN /\ store.bucket[n].edges = PreEntry(n).edges
              /\ store.bucket[n].vector = store.pre.bucket[n].vector
         ELSE store.bucket[n] = store.pre.bucket[n]
    /\ \A n \in NodeIds : store.points[n] # NoPointer =>
         /\ ~store.heap[store.points[n]].isDirty
         /\ ~store.heap[store.points[n]].isEdgeDirty

\* A Flush met a point that was deleted and dirty, and one that was dirty and
\* edge-dirty and stays in the map.
C32_Witness ==
  /\ store.op = "Flush"
  /\ store.err = ""
  /\ \E n \in NodeIds :
       /\ store.pre.points[n] # NoPointer
       /\ PreEntry(n).isDeleted
       /\ PreEntry(n).isDirty
  /\ \E n \in NodeIds :
       /\ store.pre.points[n] # NoPointer
       /\ ~PreEntry(n).isDeleted
       /\ PreEntry(n).isDirty
       /\ PreEntry(n).isEdgeDirty

\* C36: a GetPointByUUID of a node whose CachePoint in the map is dirty,
\* edge-dirty or deleted returns that CachePoint and leaves the map entry as
\* it was.
C36_LookupKeepsUnflushedState ==
  (store.op = "GetPointByUUID" /\ store.err = "") =>
    \A n \in NodeIds :
      (/\ store.heap[store.ret].nodeId = n
       /\ store.pre.points[n] # NoPointer
       /\ \/ PreEntry(n).isDirty
          \/ PreEntry(n).isEdgeDirty
          \/ PreEntry(n).isDeleted)
      => /\ store.ret = store.pre.points[n]
         /\ store.points[n] = store.pre.points[n]

\* --------------------------------------- WithPointNeighbours, concurrently
\* Goroutines that call WithPointNeighbours on one CachePoint, each call with
\* its own readOnly.  nbr.loadMu is the goroutine that holds point.loadMu (0:
\* free); nbr.writer and nbr.readers are the holders of point.neighboursMu;
\* nbr.resolved counts the times the neighbours were resolved from the edges.
\* A goroutine stands at "idle", "loadMu" (before point.loadMu.Lock()),
\* "check" (holding loadMu), "neighboursMu" (before the RLock or Lock),
\* "load" (resolving the edges), or "fn" (in its callback).
Routines == 1..MaxRoutines

NoRoutine == 0

NbInit ==
  /\ points = [id \in AllIds |-> NoPoint]
  /\ startId = NoStartId
  /\ pointCount = 0
  /\ isOpen = FALSE
  /\ searchSize = MaxSearchSize
  /\ degreeBound = MaxDegreeBound
  /\ last = [op |-> "none", err |-> "", ids |-> <<>>, dup |-> FALSE, found |-> <<>>]
  /\ deleted = {}
  /\ gs = NoGS
  /\ MgrIdle
  /\ NoPlacement
  /\ write = NoWrite
  /\ txn = NoTxn
  /\ idc = NoIdc
  /\ dset = NoDset
  /\ prune = NoPrune
  /\ store = NoStore
  /\ colls = NoColls
  /\ scan = NoScan
  /\ nbr = [loadMu |-> NoRoutine, writer |-> NoRoutine, readers |-> {},
            loadedNeighbours |-> FALSE, resolved |-> 0,
            pc |-> [g \in Routines |-> "idle"],
            readOnly |-> [g \in Routines |-> TRUE],
            first |-> [g \in Routines |-> FALSE]]

\* A writer that takes the neighbours lock in shared mode, as a reader does.
NeighboursLockShared(readOnly) == "RLock"

\* The mode in which a call takes point.neighboursMu.
NeighboursLock(readOnly) == IF readOnly THEN "RLock" ELSE "Lock"

\* A goroutine calls WithPointNeighbours(point, readOnly, fn).
NbCall(g, readOnly) ==
  /\ nbr.pc[g] = "idle"
  /\ nbr' = [nbr EXCEPT !.pc[g] = "loadMu", !.readOnly[g] = readOnly, !.first[g] = FALSE]
  /\ UNCHANGED <<shardVars, gs, mgrVars, plVars, write, txn, idc, dset, prune, store, colls, scan>>

\* point.loadMu.Lock()
NbLockLoad(g) ==
  /\ nbr.pc[g] = "loadMu"
  /\ nbr.loadMu = NoRoutine
  /\ nbr' = [nbr EXCEPT !.loadMu = g, !.pc[g] = "check"]
  /\ UNCHANGED <<shardVars, gs, mgrVars, plVars, write, txn, idc, dset, prune, store, colls, scan>>

\* if point.loadedNeighbours: unlock loadMu and go for the neighbours lock;
\* else go on to resolve the edges, loadMu held until the call returns.
NbCheck(g) ==
  /\ nbr.pc[g] = "check"
  /\ nbr' = IF nbr.loadedNeighbours
            THEN [nbr EXCEPT !.loadMu = NoRoutine, !.pc[g] = "neighboursMu"]
            ELSE [nbr EXCEPT !.pc[g] = "load"]
  /\ UNCHANGED <<shardVars, gs, mgrVars, plVars, write, txn, idc, dset, prune, store, colls, scan>>

\* point.neighboursMu.RLock() or Lock(), then fn(point.neighbours).
NbLockNeighbours(g) ==
  /\ nbr.pc[g] = "neighboursMu"
  /\ nbr.writer = NoRoutine
  /\ IF NeighboursLock(nbr.readOnly[g]) = "RLock"
     THEN nbr' = [nbr EXCEPT !.readers = @ \cup {g}, !.pc[g] = "fn"]
     ELSE /\ nbr.readers = {}
          /\ nbr' = [nbr EXCEPT !.writer = g, !.pc[g] = "fn"]
  /\ UNCHANGED <<shardVars, gs, mgrVars, plVars, write, txn, idc, dset, prune, store, colls, scan>>

\* The edges are resolved with GetPoint; with an error of GetPoint the call
\* returns it and the neighbours stay unloaded.
NbLoad(g, err) ==
  /\ nbr.pc[g] = "load"
  /\ nbr' = IF err
            THEN [nbr EXCEPT !.loadMu = NoRoutine, !.pc[g] = "idle"]
            ELSE [nbr EXCEPT !.loadedNeighbours = TRUE, !.resolved = @ + 1,
                             !.first[g] = TRUE, !.pc[g] = "fn"]
  /\ UNCHANGED <<shardVars, gs, mgrVars, plVars, write, txn, idc, dset, prune, store, colls, scan>>

\* fn returns and the deferred unlocks run.
NbReturn(g) ==
  /\ nbr.pc[g] = "fn"
  /\ nbr' = [nbr EXCEPT !.pc[g] = "idle",
                        !.loadMu = IF @ = g THEN NoRoutine ELSE @,
                        !.writer = IF @ = g THEN NoRoutine ELSE @,
                        !.readers = @ \ {g}]
  /\ UNCHANGED <<shardVars, gs, mgrVars, plVars, write, txn, idc, dset, prune, store, colls, scan>>

NbNext ==
  \/ \E g \in Routines, readOnly \in BOOLEAN : NbCall(g, readOnly)
  \/ \E g \in Routines : NbLockLoad(g)
  \/ \E g \in Routines : NbCheck(g)
  \/ \E g \in Routines : NbLockNeighbours(g)
  \/ \E g \in Routines, err \in BOOLEAN : NbLoad(g, err)
  \/ \E g \in Routines : NbReturn(g)

NbSpec == NbInit /\ [][NbNext]_vars

\* C33: a callback with readOnly = false runs at the same time as no other
\* callback on the point, the first call's callback included, and the
\* neighbours are resolved from the edges at most once.
C33_WriterCallbackRunsAlone ==
  /\ \A g, h \in Routines :
       (g # h /\ nbr.pc[g] = "fn" /\ ~nbr.readOnly[g]) => nbr.pc[h] # "fn"
  /\ nbr.resolved <= 1

\* The first call, with readOnly = false, is in its callback under the load
\* lock alone, while another call waits for the load lock.
C33_Witness ==
  \E g, h \in Routines :
    /\ g # h
    /\ nbr.pc[g] = "fn"
    /\ nbr.first[g]
    /\ ~nbr.readOnly[g]
    /\ nbr.loadMu = g
    /\ nbr.writer = NoRoutine
    /\ nbr.pc[h] = "loadMu"

\* C34: after every committed call no stored point has the same id twice in
\* its edge list.
C34_EdgeListsHaveNoDuplicates ==
  \A id \in AllIds :
    points[id].exists =>
      \A i, j \in 1..Len(points[id].edges) :
        i # j => points[id].edges[i] # points[id].edges[j]

\* ------------------------------------------------ the users' collections
\* The USERCOLSKEY bucket of one node: colls.bucket is the set of its entries
\* [key, col], key being userId + DBDELIMITER + collection id as a sequence of
\* characters and col the stored collection.  colls.userId and
\* colls.collections are the last RPCListCollections request and its reply.
DBDELIMITER == <<"/">>

UserNames == {<<"a">>, <<"b">>, <<"a", "b">>, <<"a", "-">>}

ColNames == {<<"a">>, <<"b">>}

\* The byte of a character.
ByteOf(c) ==
  CASE c = "-" -> 45 [] c = "/" -> 47 [] c = "a" -> 97 [] c = "b" -> 98

RECURSIVE BytesLess(_, _)
\* bytes.Compare(x, y) < 0: the order of the keys of a bucket.
BytesLess(x, y) ==
  IF y = <<>> THEN FALSE
  ELSE IF x = <<>> THEN TRUE
  ELSE IF ByteOf(x[1]) # ByteOf(y[1]) THEN ByteOf(x[1]) < ByteOf(y[1])
  ELSE BytesLess(Tail(x), Tail(y))

\* bytes.HasPrefix
HasPrefix(k, prefix) == Len(k) >= Len(prefix) /\ SubSeq(k, 1, Len(prefix)) = prefix

ClInit ==
  /\ points = [id \in AllIds |-> NoPoint]
  /\ startId = NoStartId
  /\ pointCount = 0
  /\ isOpen = FALSE
  /\ searchSize = MaxSearchSize
  /\ degreeBound = MaxDegreeBound
  /\ last = [op |-> "none", err |-> "", ids |-> <<>>, dup |-> FALSE, found |-> <<>>]
  /\ deleted = {}
  /\ gs = NoGS
  /\ MgrIdle
  /\ NoPlacement
  /\ write = NoWrite
  /\ txn = NoTxn
  /\ idc = NoIdc
  /\ dset = NoDset
  /\ prune = NoPrune
  /\ store = NoStore
  /\ nbr = NoNbr
  /\ scan = NoScan
  /\ colls = [bucket |-> {}, op |-> "none", alreadyExists |-> FALSE,
              userId |-> <<>>, collections |-> <<>>]

\* RPCCreateCollection on the node that stores the user's collections.
RPCCreateCollection(userId, id) ==
  /\ \E k \in {userId \o DBDELIMITER \o id} :
       IF \E e \in colls.bucket : e.key = k
       THEN colls' = [colls EXCEPT !.op = "create", !.alreadyExists = TRUE,
                                   !.userId = <<>>, !.collections = <<>>]
       ELSE colls' = [colls EXCEPT
                        !.bucket = @ \cup {[key |-> k, col |-> [userId |-> userId, id |-> id]]},
                        !.op = "create", !.alreadyExists = FALSE,
                        !.userId = <<>>, !.collections = <<>>]
  /\ UNCHANGED <<shardVars, gs, mgrVars, plVars, write, txn, idc, dset, prune, store, nbr, scan>>

\* c.Seek(seek): the entry with the least key that is not less than seek, if any.
Seek(bucket, seek) ==
  {e \in bucket : /\ ~BytesLess(e.key, seek)
                  /\ \A f \in bucket : ~BytesLess(f.key, seek) => ~BytesLess(f.key, e.key)}

\* c.Next(): the entry with the least key after k, if any.
CursorNext(bucket, k) ==
  {e \in bucket : /\ BytesLess(k, e.key)
                  /\ \A f \in bucket : BytesLess(k, f.key) => ~BytesLess(f.key, e.key)}

RECURSIVE ListFrom(_, _, _, _)
\* The loop of RPCListCollections: at is the cursor's entry, {} at the end.
ListFrom(bucket, at, userId, collections) ==
  IF at = {} THEN collections
  ELSE LET e == CHOOSE e \in at : TRUE IN
       IF ~HasPrefix(e.key, userId) THEN collections
       ELSE ListFrom(bucket, CursorNext(bucket, e.key), userId, Append(collections, e.col))

RPCListCollections(userId) ==
  /\ colls' = [colls EXCEPT
                 !.op = "list", !.alreadyExists = FALSE, !.userId = userId,
                 !.collections = ListFrom(colls.bucket, Seek(colls.bucket, userId \o DBDELIMITER),
                                          userId, <<>>)]
  /\ UNCHANGED <<shardVars, gs, mgrVars, plVars, write, txn, idc, dset, prune, store, nbr, scan>>

ClNext ==
  \/ \E userId \in UserNames, id \in ColNames : RPCCreateCollection(userId, id)
  \/ \E userId \in UserNames : RPCListCollections(userId)

ClSpec == ClInit /\ [][ClNext]_vars

\* C35: the reply of RPCListCollections(userId) holds the collections stored
\* under that user id, each once, and no collection of another user.
C35_ListsOnlyTheUsersCollections ==
  colls.op = "list" =>
    /\ {colls.collections[i] : i \in 1..Len(colls.collections)}
         = {e.col : e \in {f \in colls.bucket : f.col.userId = colls.userId}}
    /\ \A i, j \in 1..Len(colls.collections) :
         i # j => colls.collections[i] # colls.collections[j]

\* -------------------------------------------------------------- ClusterScan
\* A ClusterScan of a prefix: one RPCScan per target server, whose replies
\* arrive in any order.  scan.replied holds the targets that have answered,
\* scan.entries the entries appended so far (each reply's entries stand as the
\* index of its target), scan.successCount the replies of the default case.
ScInit ==
  /\ points = [id \in AllIds |-> NoPoint]
  /\ startId = NoStartId
  /\ pointCount = 0
  /\ isOpen = FALSE
  /\ searchSize = MaxSearchSize
  /\ degreeBound = MaxDegreeBound
  /\ last = [op |-> "none", err |-> "", ids |-> <<>>, dup |-> FALSE, found |-> <<>>]
  /\ deleted = {}
  /\ gs = NoGS
  /\ MgrIdle
  /\ key \in WriteKeys
  /\ servers \in ServerLists
  /\ placement = NoResult
  /\ write = NoWrite
  /\ txn = NoTxn
  /\ idc = NoIdc
  /\ dset = NoDset
  /\ prune = NoPrune
  /\ store = NoStore
  /\ nbr = NoNbr
  /\ colls = NoColls
  /\ scan = [pc |-> "idle", targets |-> <<>>, replied |-> {}, entries |-> <<>>,
             errorCount |-> 0, timeoutCount |-> 0, successCount |-> 0,
             ret |-> "", nilEntries |-> TRUE]

\* targetServers, err := c.KeyPlacement(prefix); one RPCScan per target server.
ClusterScan ==
  /\ scan.pc = "idle"
  /\ \E r \in {KeyPlacement(key, servers)} :
       scan' = IF r.err # ""
               THEN [scan EXCEPT !.pc = "done", !.ret = "could not get target servers"]
               ELSE [scan EXCEPT !.pc = "collect", !.targets = r.servers]
  /\ UNCHANGED <<shardVars, gs, mgrVars, plVars, write, txn, idc, dset, prune, store, nbr, colls>>

\* result := <-results, the reply of target i.
ScanReceive(i, err) ==
  /\ scan.pc = "collect"
  /\ i \in (1..Len(scan.targets)) \ scan.replied
  /\ scan' = CASE err = "timeout" -> [scan EXCEPT !.replied = @ \cup {i}, !.timeoutCount = @ + 1]
               [] err = "other" -> [scan EXCEPT !.replied = @ \cup {i}, !.errorCount = @ + 1]
               [] OTHER -> [scan EXCEPT !.replied = @ \cup {i}, !.successCount = @ + 1,
                                        !.entries = Append(@, i)]
  /\ UNCHANGED <<shardVars, gs, mgrVars, plVars, write, txn, idc, dset, prune, store, nbr, colls>>

\* The two tests after the loop of ClusterScan.
ScanResult(sc) ==
  IF sc.timeoutCount = Len(sc.targets) THEN "ErrTimeout"
  ELSE IF sc.errorCount = Len(sc.targets) THEN "ErrNoSuccess"
  ELSE ""

ScanReturn ==
  /\ scan.pc = "collect"
  /\ Cardinality(scan.replied) = Len(scan.targets)
  /\ scan' = [scan EXCEPT !.pc = "done", !.ret = ScanResult(scan),
                          !.nilEntries = (ScanResult(scan) # "")]
  /\ UNCHANGED <<shardVars, gs, mgrVars, plVars, write, txn, idc, dset, prune, store, nbr, colls>>

ScNext ==
  \/ ClusterScan
  \/ \E i \in ServerIds, err \in Outcomes \ {"stale"} : ScanReceive(i, err)
  \/ ScanReturn

ScSpec == ScInit /\ [][ScNext]_vars

\* C37: ClusterScan returns a nil error only if the scan of at least one
\* target replica succeeded.
C37_ScanSucceedsOnlyWithASuccess ==
  (scan.pc = "done" /\ scan.ret = "") => scan.successCount >= 1

====
